---- MODULE Spec2Model ----
(***************************************************************************)
(* Model of the mythen-dcs client library: the Connection transport with   *)
(* its ensure_connection wrapper (mythendcs/core.py), the streaming        *)
(* readout of Mythen4 and the ChainGroup aggregator (mythendcs/group.py),  *)
(* the device models Mythen and Mythen4 with the command() exchange, and   *)
(* of the device simulator with its acquisition engine                     *)
(* (mythendcs/simulator/core.py).                                          *)
(***************************************************************************)
EXTENDS Integers, Sequences, FiniteSets, TLC

\* Largest buffer / reply length, in bytes, that a call may ask for.
MaxLen == 2
\* Largest number of reply bytes the peer may have in flight on one socket.
MaxWire == 4
\* Largest number of frames one readout asks for or one acquisition makes.
MaxFrames == 2
\* Largest gate count of a simulated acquisition.
MaxGates == 2
\* Largest number of high edges of the input signal during one acquisition.
MaxEdges == 3
\* The times the input signal may stay high, in time units.
Durations == {1, 2}

Threads == {"t1", "t2"}
NoThread == "nobody"

\* socket.SOCK_STREAM / socket.SOCK_DGRAM (core.py:19-20)
TCP == "SOCK_STREAM"
UDP == "SOCK_DGRAM"

\* The operations decorated with @ensure_connection (core.py:208-244).
Ops == {"write", "read", "read_exactly_into", "write_read",
        "write_read_exactly_into"}

\* What one execution of the undecorated body f can end with:
\*   ok        f returned a non-empty value (or None / the filled buffer)
\*   empty     f returned b"" (fobj.read on a stream closed by the peer)
\*   timeout   f raised socket.timeout
\*   oserror   f raised another OSError
\*   commerror f raised MythenError(ERR_MYTHEN_COMM_ERROR), not an OSError

VARIABLES
    kind,     \* Connection.kind
    socket,   \* Connection.socket: "None" or "open"
    peer,     \* the remote end of the open socket: "up" or "closed"
    wire,     \* reply bytes the peer owes on the open socket, each tagged
              \* with the thread whose command they answer
    stimeout, \* the timeout in force on the socket (socket.gettimeout())
    lock,     \* Connection.lock: the thread holding it, or NoThread
    th,       \* per calling thread: position in the wrapper and its locals
    ro,       \* the generator of a streaming readout (Mythen4.ireadout)
    cg,       \* ChainGroup: the calling thread's position and locals
    futs,     \* ChainGroup: the futures of the current fan-out, in submit order
    wk,       \* ChainGroup._exec: what each worker thread is running
    log,      \* the units in the order in which their start was called
    cr,       \* ChainGroup.ireadout: the units' streams and the frames yielded
    config,   \* simulator: Mythen2.config, the settings an acquisition uses
    acq,      \* simulator: Mythen2.acq_task and its acquisition
    sig,      \* simulator: SignalSource.state of the output signal
    rd,       \* simulator: the handler of a readout command and its client
    reply,    \* simulator: the reply to the last command
    unit,     \* ChainGroup.mythens: the device model of every unit of the
              \* chain, with the device it talks to
    grp,      \* ChainGroup: whether it is constructed, and the attribute
              \* access in progress
    my,       \* one device model (Mythen or Mythen4) with its device
    call,     \* the last call made on my: arguments, commands, outcome
    ids,      \* simulator: commandid and commandsetid of Mythen2.config, and
              \* the messages handled
    orphans   \* simulator: the acquisitions of the engines that were running
              \* when a later start replaced acq_task

connVars == <<kind, socket, peer, wire, stimeout, lock, th>>
roVars == <<ro>>
chVars == <<cg, futs, wk, log, cr>>
simVars == <<config, acq, sig, rd, reply>>
grVars == <<unit, grp>>
dmVars == <<my, call>>
hdVars == <<ids, orphans>>
vars == <<connVars, roVars, chVars, simVars, grVars, dmVars, hdVars>>

Min(a, b) == IF a < b THEN a ELSE b

\* F of the value e: a local name for a value that is used more than once.
With(e, F(_)) == F(e)

\* The body f of each wrapped operation as a sequence of socket primitives:
\* W = fobj.write(data), R = fobj.read(size), X = _read_exactly_into(buff).
body(op) ==
    CASE op = "write" -> <<"W">>
      [] op = "read" -> <<"R">>
      [] op = "read_exactly_into" -> <<"X">>
      [] op = "write_read" -> <<"W", "R">>
      [] op = "write_read_exactly_into" -> <<"W", "X">>

Blank ==
    [pc |-> "idle", op |-> "none", n |-> 0, reply |-> 0, ip |-> 0, just |-> FALSE,
     attempt |-> 0, offset |-> 0, frags |-> 0, foreign |-> FALSE,
     clean |-> FALSE, first |-> "none", last |-> "none", nconn |-> 0,
     res |-> "none", tmo |-> "DEFAULT", prev |-> "none", before |-> "none"]

InitConn ==
    /\ kind \in {TCP, UDP}
    /\ socket = "None"
    /\ peer = "up"
    /\ wire = <<>>
    /\ stimeout = "none"
    /\ lock = NoThread
    /\ th = [t \in Threads |-> Blank]

----------------------------------------------------------------------------
\* ensure_connection (core.py:100-125) decides what happens with the outcome
\* o of an execution of the decorated body f.

\* core.py:108-113: a datagram socket, or a socket this call just opened.
fresh_attempt(o) ==
    IF o \in {"timeout", "oserror"}
    THEN [act |-> "disconnect_raise", res |-> o]
    ELSE IF o = "commerror" THEN [act |-> "raise", res |-> o]
    ELSE [act |-> "return", res |-> o]

\* core.py:114-123: a stream socket that was open when the call began.
stream_attempt(o) ==
    CASE o = "ok" -> [act |-> "return", res |-> o]
      \* line 117 raises ConnectionError, an OSError, inside the try block:
      \* the except OSError clause of line 122 catches it
      [] o = "empty" -> [act |-> "reconnect_retry", res |-> "closed"]
      [] o = "timeout" -> [act |-> "disconnect_raise", res |-> o]
      [] o = "oserror" -> [act |-> "reconnect_retry", res |-> o]
      [] o = "commerror" -> [act |-> "raise", res |-> o]

\* The retry made to recover from an I/O error like the first execution.
retry_attempt_again(o) ==
    IF o = "oserror" THEN [act |-> "reconnect_retry", res |-> o]
    ELSE IF o \in {"ok", "empty"} THEN [act |-> "return", res |-> o]
    ELSE [act |-> "raise", res |-> o]

\* core.py:124: return f(...) in the except clause, outside every try block.
retry_attempt(o) ==
    IF o \in {"ok", "empty"} THEN [act |-> "return", res |-> o]
                             ELSE [act |-> "raise", res |-> o]

\* The test of line 108 without its datagram half.
takes_fresh_branch_stream_only(k, just_connected) == just_connected

\* core.py:108: if self.kind == UDP or just_connected
takes_fresh_branch(k, just_connected) == k = UDP \/ just_connected

\* attempt is 1 for the executions of f at lines 110 and 115, 2 for line 124.
ensure_connection(k, just_connected, attempt, o) ==
    IF attempt = 1
    THEN IF takes_fresh_branch(k, just_connected) THEN fresh_attempt(o)
                                                  ELSE stream_attempt(o)
    ELSE retry_attempt(o)

\* Connection.disconnect (core.py:185-189)
disconnect ==
    /\ socket' = "None"
    /\ peer' = "up"
    /\ wire' = <<>>

\* Connection.connect (core.py:174-183): the old socket is closed first; the
\* new one is stored only when sock.connect succeeded.
connect(ok) ==
    IF ok THEN /\ socket' = "open"
               /\ peer' = "up"
               /\ wire' = <<>>
          ELSE disconnect

\* The timeout a socket has when connect made it (core.py:176-178): the
\* connection-level one.
ConnTimeout == "conn"

\* The operations whose body runs inside guard_timeout (core.py:212-244);
\* write takes no timeout.
guarded(op) == op # "write"

\* guard_timeout, before the body (core.py:130-133): the timeout in force
\* while the body runs, cur being the one in force on entry.
guard_enter(timeout, cur) == IF timeout = "DEFAULT" THEN cur ELSE timeout

\* The override left in force when the body is over.
guard_exit_kept(timeout, prev_timeout, cur) == cur

\* guard_timeout, after the body (core.py:134-139): the finally clause puts
\* prev_timeout back; the socket is still there, since only the wrapper
\* around f disconnects.
guard_exit(timeout, prev_timeout, cur) ==
    IF timeout = "DEFAULT" THEN cur ELSE prev_timeout

\* The wrapper entered without waiting for the lock.
LockIgnored == TRUE

\* with self.lock (core.py:103): threading.Lock is free
LockFree == lock = NoThread

\* The loop left after the first receive that delivered something.
read_done_after_first(offset, size) == offset > 0

\* while offset < size (core.py:201)
read_done(offset, size) == ~(offset < size)

----------------------------------------------------------------------------
\* Thread t calls the wrapped operation op with a buffer (or maximal read
\* size) of n bytes; the command it writes, if any, is one the peer answers
\* with size bytes.
Invoke(t, op, n, size, timeout) ==
    /\ th[t].pc = "idle"
    /\ th' = [th EXCEPT ![t] = [Blank EXCEPT !.pc = "lock", !.op = op, !.n = n,
                                             !.reply = size, !.tmo = timeout]]
    /\ UNCHANGED <<kind, socket, peer, wire, stimeout, lock>>

\* A thread calls any of the wrapped operations, the ones that take a
\* timeout with or without a per-call override.
Call(t) ==
    \E op \in Ops, n \in 1..MaxLen, timeout \in {"DEFAULT", "call"} :
       /\ (timeout # "DEFAULT" => guarded(op))
       /\ Invoke(t, op, n, n, timeout)

\* core.py:103-107: take the lock, connect when there is no socket.
Acquire(t) ==
    /\ th[t].pc = "lock"
    /\ LockFree
    /\ lock' = t
    /\ IF socket = "None"
       THEN \E ok \in BOOLEAN :
              /\ connect(ok)
              /\ stimeout' = IF ok THEN guard_enter(th[t].tmo, ConnTimeout)
                                   ELSE "none"
              /\ th' = [th EXCEPT ![t] =
                   IF ok THEN [@ EXCEPT !.pc = "body", !.ip = 1, !.attempt = 1,
                                        !.just = TRUE, !.nconn = 1,
                                        !.prev = ConnTimeout,
                                        !.before = ConnTimeout]
                         ELSE [@ EXCEPT !.pc = "ret", !.nconn = 1,
                                        !.res = "connecterror",
                                        !.before = ConnTimeout]]
       ELSE /\ th' = [th EXCEPT ![t] =
                   [@ EXCEPT !.pc = "body", !.ip = 1, !.attempt = 1,
                             !.prev = stimeout, !.before = stimeout]]
            /\ stimeout' = guard_enter(th[t].tmo, stimeout)
            /\ UNCHANGED <<socket, peer, wire>>
    /\ UNCHANGED kind

\* The reply to a command whose caller has given up waiting for it.
Late == "late"

\* The wire w when the call of thread t is left with socket.timeout and the
\* socket stays as it is: what the peer owes for the command of t will
\* still arrive on it.
overdue(w, t) == [i \in 1..Len(w) |-> IF w[i] = t THEN Late ELSE w[i]]

\* The execution of f ended with outcome o; r is the thread's record and w
\* the wire after the last primitive.
Finish(t, r, o, w) ==
    LET d == ensure_connection(kind, r.just, r.attempt, o)
        r1 == [r EXCEPT !.first = IF r.attempt = 1 THEN o ELSE @, !.last = o]
    IN  CASE d.act \in {"return", "raise"} ->
               /\ th' = [th EXCEPT ![t] = [r1 EXCEPT !.pc = "ret", !.res = d.res]]
               /\ wire' = IF d.act = "raise" /\ o = "timeout" /\ r.ip > 1
                          THEN overdue(w, t) ELSE w
               /\ stimeout' = guard_exit(r.tmo, r.prev, stimeout)
               /\ UNCHANGED <<socket, peer>>
          [] d.act = "disconnect_raise" ->
               /\ disconnect
               /\ stimeout' = "none"
               /\ th' = [th EXCEPT ![t] = [r1 EXCEPT !.pc = "ret", !.res = d.res]]
          [] d.act = "reconnect_retry" ->
               \E ok \in BOOLEAN :
                 /\ connect(ok)
                 /\ stimeout' = IF ok THEN guard_enter(r.tmo, ConnTimeout)
                                      ELSE "none"
                 /\ th' = [th EXCEPT ![t] =
                      IF ok THEN [r1 EXCEPT !.ip = 1, !.attempt = @ + 1, !.offset = 0,
                                            !.frags = 0, !.last = "none",
                                            !.foreign = FALSE, !.clean = FALSE,
                                            !.nconn = @ + 1,
                                            !.prev = ConnTimeout]
                            ELSE [r1 EXCEPT !.pc = "ret", !.nconn = @ + 1,
                                            !.res = "connecterror"]]

\* The primitive ended without ending f: go on with the next one.
Advance(t, r, w) ==
    /\ th' = [th EXCEPT ![t] = r]
    /\ wire' = w
    /\ UNCHANGED <<socket, peer, stimeout>>

\* After primitive number ip of f succeeded.
Succeed(t, r, w) ==
    IF r.ip = Len(body(r.op))
    THEN Finish(t, r, "ok", w)
    ELSE Advance(t, [r EXCEPT !.ip = @ + 1], w)

Tags(t, n) == [i \in 1..n |-> t]

\* fobj.write(data) (core.py:210, 232, 241): the peer will answer the
\* command with r.reply bytes.
Send(t) ==
    LET r == th[t] IN
    /\ r.pc = "body"
    /\ body(r.op)[r.ip] = "W"
    /\ \/ /\ peer = "closed" \/ Len(wire) + r.reply <= MaxWire
          /\ Succeed(t, [r EXCEPT !.clean = (wire = <<>>)],
                     IF peer = "up" THEN wire \o Tags(t, r.reply) ELSE wire)
       \/ \E o \in {"timeout", "oserror"} : Finish(t, r, o, wire)
    /\ UNCHANGED <<kind, lock>>

\* fobj.read(size) (core.py:216, 233): one recv of at most size bytes.
Read(t) ==
    LET r == th[t] IN
    /\ r.pc = "body"
    /\ body(r.op)[r.ip] = "R"
    /\ \/ \E k \in 1..Min(r.n, Len(wire)) :
             Succeed(t, [r EXCEPT !.offset = k,
                                  !.foreign = \E i \in 1..k : wire[i] # t],
                     SubSeq(wire, k + 1, Len(wire)))
       \/ /\ wire = <<>>
          /\ peer = "closed"
          /\ Finish(t, r, "empty", wire)
       \/ \E o \in {"timeout", "oserror"} : Finish(t, r, o, wire)
    /\ UNCHANGED <<kind, lock>>

\* One iteration of the loop of _read_exactly_into (core.py:201-205).
RecvInto(t) ==
    LET r == th[t] IN
    /\ r.pc = "body"
    /\ body(r.op)[r.ip] = "X"
    /\ \/ \E k \in 1..Min(r.n - r.offset, Len(wire)) :
             LET r1 == [r EXCEPT !.offset = @ + k, !.frags = @ + 1,
                                 !.foreign = @ \/ \E i \in 1..k : wire[i] # t]
                 w == SubSeq(wire, k + 1, Len(wire))
             IN  IF read_done(r1.offset, r1.n) THEN Succeed(t, r1, w)
                                               ELSE Advance(t, r1, w)
       \/ /\ wire = <<>>
          /\ peer = "closed"
          /\ Finish(t, r, "commerror", wire)
       \/ \E o \in {"timeout", "oserror"} : Finish(t, r, o, wire)
    /\ UNCHANGED <<kind, lock>>

\* The lock stays with the caller when the wrapper is left by an exception.
lock_after_return_only(t, res) ==
    IF res \in {"ok", "empty"} THEN NoThread ELSE t

\* with self.lock (core.py:103): the with block releases the lock when it
\* is left, by return and by an exception alike.
lock_after(t, res) == NoThread

\* The wrapper is left (return or raise): the with block releases the lock.
Return(t) ==
    /\ th[t].pc = "ret"
    /\ lock' = lock_after(t, th[t].res)
    /\ th' = [th EXCEPT ![t] = Blank]
    /\ UNCHANGED <<kind, socket, peer, wire, stimeout>>

\* The remote end closes the stream.
PeerClose ==
    /\ kind = TCP
    /\ socket = "open"
    /\ peer = "up"
    /\ peer' = "closed"
    /\ UNCHANGED <<kind, socket, wire, stimeout, lock, th>>

----------------------------------------------------------------------------
\* Mythen4.ireadout and Mythen4.gen_readout (core.py:1011-1040): a generator
\* that writes one readout command and then reads one frame per iteration.
\* It runs in the thread of its consumer.
ReadoutThread == "t1"

NoReadout ==
    [pc |-> "none", n |-> 0, fb |-> 0, i |-> 0, writes |-> 0, reads |-> 0,
     out |-> <<>>, filled |-> <<>>, retried |-> <<>>]

InitReadout == ro = NoReadout

\* The loop counts one frame too many.
more_frames_off_by_one(i, n) == i <= n

\* for i in range(n) (core.py:1028, 1037)
more_frames(i, n) == i < n

\* ireadout(n) is called on a device whose frames are fb bytes long
\* (frame_bytes = 4 * nchannels); nothing runs before the first next().
ReadoutNew ==
    /\ ro.pc \in {"none", "done", "raised"}
    /\ \E n \in 0..MaxFrames, fb \in 1..MaxLen :
          /\ n * fb <= MaxWire
          /\ ro' = [NoReadout EXCEPT !.pc = "created", !.n = n, !.fb = fb]
    /\ UNCHANGED connVars

\* core.py:1026-1027 / 1035-1036: self.connection.write(cmd.encode())
ReadoutWrite ==
    /\ ro.pc = "created"
    /\ Invoke(ReadoutThread, "write", 0, ro.n * ro.fb, "DEFAULT")
    /\ ro' = [ro EXCEPT !.pc = "writing", !.writes = @ + 1]

\* The write returned or raised; an exception ends the generator.
ReadoutWritten ==
    /\ ro.pc = "writing"
    /\ Return(ReadoutThread)
    /\ ro' = [ro EXCEPT !.pc = IF th[ReadoutThread].res = "ok" THEN "loop"
                                                              ELSE "raised"]

\* core.py:1028-1031 / 1037-1039: self.connection.read_exactly_into(view)
ReadoutRead ==
    /\ ro.pc = "loop"
    /\ more_frames(ro.i, ro.n)
    /\ Invoke(ReadoutThread, "read_exactly_into", ro.fb, 0, "DEFAULT")
    /\ ro' = [ro EXCEPT !.pc = "reading", !.reads = @ + 1]

\* core.py:1032 / 1040: the frame is yielded and the consumer asks for the
\* next one; an exception of the read ends the generator.
ReadoutYield ==
    /\ ro.pc = "reading"
    /\ Return(ReadoutThread)
    /\ LET r == th[ReadoutThread] IN
       ro' = IF r.res = "ok"
             THEN [ro EXCEPT !.pc = "loop", !.i = @ + 1,
                             !.out = Append(@, ro.i),
                             !.filled = Append(@, r.offset),
                             !.retried = Append(@, r.attempt > 1)]
             ELSE [ro EXCEPT !.pc = "raised"]

\* The loop is exhausted: StopIteration.
ReadoutEnd ==
    /\ ro.pc = "loop"
    /\ ~more_frames(ro.i, ro.n)
    /\ ro' = [ro EXCEPT !.pc = "done"]
    /\ UNCHANGED connVars

----------------------------------------------------------------------------
\* ChainGroup (group.py): a master and its slaves in chain order, and the
\* thread pool that fans calls out to them.
Master == "master"
Slaves == <<"slaveA", "slaveB">>
Mythens == <<Master>> \o Slaves
Units == {Mythens[k] : k \in 1..Len(Mythens)}

\* group.py:46: ThreadPoolExecutor(max_workers=len(mythens))
Workers == {"w1", "w2", "w3"}

RECURSIVE sum(_)
\* ndarray.sum()
sum(s) == IF s = <<>> THEN 0 ELSE Head(s) + sum(Tail(s))

RECURSIVE concatenate(_)
\* np.concatenate(results) (group.py:64)
concatenate(rs) ==
    IF rs = <<>> THEN <<>> ELSE Head(rs) \o concatenate(Tail(rs))

\* reversed(...) (group.py:86)
reversed(s) == [k \in 1..Len(s) |-> s[Len(s) + 1 - k]]

\* No group call is in progress.  For a readout: frame_channels and the
\* entry of every unit in connections, its offset and its channel count.
IdleGroup ==
    [pc |-> "idle", op |-> "none", todo |-> <<>>, k |-> 0, n |-> 0, i |-> 0,
     conns |-> {}, ready |-> {}, filled |-> {}, frame_channels |-> 0,
     connections |-> [u \in Units |-> [offset |-> 0, num_channels |-> 0]]]

\* The streams of a chain readout, the frame being assembled (frame) and
\* the frames yielded (frames), channel by channel.
NoStreams ==
    [sent |-> [u \in Units |-> FALSE], avail |-> [u \in Units |-> 0],
     reads |-> [u \in Units |-> 0], out |-> <<>>, slices |-> <<>>,
     frame |-> <<>>, frames |-> <<>>]

\* A channel of np.empty that nothing has been read into.
Garbage == [unit |-> "none", frame |-> 0, channel |-> 0]

InitChain ==
    /\ cg = IdleGroup
    /\ futs = <<>>
    /\ wk = [w \in Workers |-> 0]
    /\ log = <<>>
    /\ cr = NoStreams

\* No work item of an earlier fan-out is queued or running.
PoolIdle ==
    /\ \A w \in Workers : wk[w] = 0
    /\ \A k \in 1..Len(futs) : futs[k].st \in {"ok", "err"}

\* Future.result() / concurrent.futures.wait return without waiting.
future_done_unchecked(st) == TRUE

\* Future.result() (group.py:83) and concurrent.futures.wait (group.py:141)
\* block until the work item has run.
future_done(st) == st \in {"ok", "err"}

\* The connection stays in the set of connections to read for this frame.
remaining_kept(conns, conn) == conns

\* conns.remove(conn) (group.py:152)
remaining(conns, conn) == conns \ {conn}

\* ChainGroup.start (group.py:85-87): slaves = reversed(self.mythen_slaves)
GroupStart ==
    /\ cg.pc \in {"idle", "done", "raised"}
    /\ PoolIdle
    /\ cg' = [IdleGroup EXCEPT !.pc = "submit", !.op = "start",
                               !.todo = reversed(Slaves)]
    /\ futs' = <<>>
    /\ log' = <<>>
    /\ cr' = NoStreams
    /\ UNCHANGED wk

\* The function a group operation submits to the executor: Mythen.start
\* (group.py:87), Connection.write (group.py:135-140), setattr (group.py:49,
\* 72), getattr (group.py:59, 61), Mythen.stop and Mythen.reset
\* (group.py:91, 94).
work_item(op) ==
    CASE op = "ireadout" -> "write"
      [] op = "init" -> "setattr"
      [] OTHER -> op

\* ChainGroup._map (group.py:79-82) and ireadout (group.py:137-140): the
\* next work item is submitted to the executor.
MapSubmit ==
    /\ cg.pc = "submit"
    /\ futs' = Append(futs, [unit |-> Head(cg.todo), st |-> "queued",
                             fn |-> work_item(cg.op), res |-> <<>>])
    /\ cg' = [cg EXCEPT !.todo = Tail(@),
                        !.pc = IF Len(cg.todo) = 1 THEN "wait" ELSE "submit",
                        !.k = 1]
    /\ UNCHANGED <<wk, log, cr>>

\* A worker thread of the pool takes the oldest queued work item.
WorkerTake(w) ==
    /\ wk[w] = 0
    /\ \E k \in 1..Len(futs) :
          /\ futs[k].st = "queued"
          /\ \A j \in 1..(k - 1) : futs[j].st # "queued"
          /\ futs' = [futs EXCEPT ![k].st = "running"]
          /\ wk' = [wk EXCEPT ![w] = k]
    /\ UNCHANGED <<cg, log, cr>>

\* The worker runs its work item: Mythen.start on the unit (core.py:350-354)
\* or Connection.write of the readout command on the unit's connection.
\* The call returns or raises.
WorkerRun(w) ==
    /\ wk[w] # 0
    /\ \E o \in {"ok", "err"} :
          /\ futs' = [futs EXCEPT ![wk[w]].st = o]
          /\ IF futs[wk[w]].fn = "start"
             THEN /\ log' = Append(log, futs[wk[w]].unit)
                  /\ UNCHANGED cr
             ELSE /\ cr' = [cr EXCEPT !.sent[futs[wk[w]].unit] = (o = "ok")]
                  /\ UNCHANGED log
    /\ wk' = [wk EXCEPT ![w] = 0]
    /\ UNCHANGED cg

\* ChainGroup._map (group.py:83): [future.result() for future in futures];
\* the exception of a failed work item is raised to the caller of start.
MapResult ==
    /\ cg.pc = "wait"
    /\ cg.op = "start"
    /\ future_done(futs[cg.k].st)
    /\ cg' = [cg EXCEPT !.pc = IF futs[cg.k].st = "err" THEN "raised"
                               ELSE IF cg.k = Len(futs) THEN "master"
                               ELSE "wait",
                        !.k = @ + 1]
    /\ UNCHANGED <<futs, wk, log, cr>>

\* ChainGroup.start (group.py:88): self.mythen_master.start()
StartMaster ==
    /\ cg.pc = "master"
    /\ log' = Append(log, Master)
    /\ \E o \in {"done", "raised"} : cg' = [cg EXCEPT !.pc = o]
    /\ UNCHANGED <<futs, wk, cr>>

\* Mythen4.num_channels (core.py:871-874) on the channel counts the
\* constructor of the device model m cached.
num_channels(m) == sum(m.modch.v)

\* ChainGroup.num_channels (group.py:96-98): self.num_module_channels.sum(),
\* the sum of the concatenated channel counts of the modules of every unit.
group_num_channels(ms) ==
    sum(concatenate([k \in 1..Len(ms) |-> unit[ms[k]].modch.v]))

\* Every unit's slice of the frame starts at channel 0.
connections_unshifted(ms) ==
    [u \in Units |-> [offset |-> 0, num_channels |-> num_channels(unit[u])]]

\* ChainGroup.ireadout (group.py:128-133): the offset of a unit is the sum
\* of the channel counts of the units before it in self.mythens.
connections(ms) ==
    [u \in Units |->
       LET k == CHOOSE j \in 1..Len(ms) : ms[j] = u
       IN [offset |-> sum([j \in 1..(k - 1) |-> num_channels(unit[ms[j]])]),
           num_channels |-> num_channels(unit[u])]]

\* frame[offset:offset + num_channels] = data (group.py:150-151): the
\* channels of the slice, cut at the end of the frame, hold the data.
read_into(frame, offset, n, data) ==
    [k \in 1..Len(frame) |->
       IF offset < k /\ k <= offset + n THEN data[k - offset] ELSE frame[k]]

\* The i-th raw frame of unit u: one value per channel.
RawFrame(u, i, n) == [j \in 1..n |-> [unit |-> u, frame |-> i, channel |-> j]]

\* ChainGroup.ireadout (group.py:112-136): the generator is created and run
\* up to the submission of the readout command for every connection.
GroupReadout ==
    /\ cg.pc \in {"idle", "done", "raised"}
    /\ PoolIdle
    /\ \E n \in 1..MaxFrames :
          cg' = [IdleGroup EXCEPT !.pc = "submit", !.op = "ireadout",
                                 !.todo = Mythens, !.n = n,
                                 !.frame_channels = group_num_channels(Mythens),
                                 !.connections = connections(Mythens)]
    /\ futs' = <<>>
    /\ log' = <<>>
    /\ cr' = NoStreams
    /\ UNCHANGED wk

\* group.py:141: concurrent.futures.wait(results); the results of the
\* writes are not looked at.
ReadoutWait ==
    /\ cg.pc = "wait"
    /\ cg.op = "ireadout"
    /\ \A k \in 1..Len(futs) : future_done(futs[k].st)
    /\ cg' = [cg EXCEPT !.pc = "frame", !.i = 0]
    /\ UNCHANGED <<futs, wk, log, cr>>

\* group.py:142-145: the next frame begins with every connection to read,
\* or the loop is exhausted.
FrameBegin ==
    /\ cg.pc = "frame"
    /\ cg' = IF more_frames(cg.i, cg.n)
             THEN [cg EXCEPT !.pc = "select", !.conns = Units, !.filled = {}]
             ELSE [cg EXCEPT !.pc = "done"]
    /\ cr' = IF more_frames(cg.i, cg.n)
             THEN [cr EXCEPT !.frame = [k \in 1..cg.frame_channels |-> Garbage]]
             ELSE cr
    /\ UNCHANGED <<futs, wk, log>>

\* A unit that got the readout command delivers its next frame.
UnitData(u) ==
    /\ cg.op = "ireadout"
    /\ cr.sent[u]
    /\ cr.avail[u] + cr.reads[u] < cg.n
    /\ cr' = [cr EXCEPT !.avail[u] = @ + 1]
    /\ UNCHANGED <<cg, futs, wk, log>>

\* group.py:146-147: select.select(conns, (), ()) returns the connections
\* of conns that have data, once there is one.
Select ==
    /\ cg.pc = "select"
    /\ cg.conns # {}
    /\ LET ready == {u \in cg.conns : cr.avail[u] > 0} IN
       /\ ready # {}
       /\ cg' = [cg EXCEPT !.pc = "read", !.ready = ready]
    /\ UNCHANGED <<futs, wk, log, cr>>

\* group.py:148-152: conn.read_exactly_into(frame_view) for the next ready
\* connection; an exception of the read ends the generator.
ReadSlice ==
    /\ cg.pc = "read"
    /\ cg.ready # {}
    /\ \E u \in cg.ready :
          \/ /\ cr.avail[u] > 0
             /\ cr' = [cr EXCEPT
                         !.avail[u] = @ - 1, !.reads[u] = @ + 1,
                         !.frame = read_into(@, cg.connections[u].offset,
                                             cg.connections[u].num_channels,
                                             RawFrame(u, cr.reads[u],
                                                      num_channels(unit[u])))]
             /\ cg' = [cg EXCEPT !.ready = @ \ {u},
                                 !.conns = remaining(@, u),
                                 !.filled = @ \cup {u}]
          \/ /\ cr' = [cr EXCEPT !.reads[u] = @ + 1]
             /\ cg' = [cg EXCEPT !.pc = "raised"]
    /\ UNCHANGED <<futs, wk, log>>

\* group.py:148: the connections select returned have all been read.
ReadyDone ==
    /\ cg.pc = "read"
    /\ cg.ready = {}
    /\ cg' = [cg EXCEPT !.pc = "select"]
    /\ UNCHANGED <<futs, wk, log, cr>>

\* group.py:146, 153: conns is empty: the frame is yielded and the consumer
\* asks for the next one.
FrameYield ==
    /\ cg.pc = "select"
    /\ cg.conns = {}
    /\ cr' = [cr EXCEPT !.out = Append(@, cg.i), !.slices = Append(@, cg.filled),
                        !.frames = Append(@, cr.frame)]
    /\ cg' = [cg EXCEPT !.pc = "frame", !.i = @ + 1, !.filled = {}]
    /\ UNCHANGED <<futs, wk, log>>

----------------------------------------------------------------------------
\* The device simulator (mythendcs/simulator/core.py): the Mythen2 device
\* with its command handler and the acquisition engine, a greenlet.  Greenlets
\* are scheduled cooperatively: the engine runs from one blocking call
\* (an event wait or a sleep) to the next without interruption, and the
\* command handler and the listener of the input signal run only while the
\* engine is blocked.

\* The acquisition classes (simulator/core.py:281-347).
Internal == "InternalAcquisition"
SingleTrigger == "SingleTriggerAcquisition"
ContinuousTrigger == "ContinuousTriggerAcquisition"
Gate == "GateAcquisition"

\* exp_time = config["time"] * ns100 (simulator/core.py:359), in time units.
ExposureTime == 1

\* create_frame (simulator/core.py:247-248): every channel holds frame_nb;
\* the exposure time does not enter the data.  t and used record the value
\* expose returned for the frame and the input pulses it was measured on.
create_frame_zero(frame_nb, exposure_time, used) ==
    [kind |-> "frame", fill |-> 0, t |-> exposure_time, used |-> used]

create_frame(frame_nb, exposure_time, used) ==
    [kind |-> "frame", fill |-> frame_nb, t |-> exposure_time, used |-> used]

\* self.buffer.put(None) (simulator/core.py:238)
EndMarker == [kind |-> "None", fill |-> -1, t |-> 0, used |-> <<>>]

\* The defaults of TYPES (simulator/core.py:167-173).
InitConfig == [gateen |-> 0, trigen |-> 0, conttrigen |-> 0, frames |-> 1,
               gates |-> 1]

NoAcq ==
    [pc |-> "none", klass |-> "none", nb_frames |-> 0, nb_gates |-> 0,
     finished |-> "None", exposing |-> FALSE, buffer |-> <<>>,
     high |-> FALSE, low |-> TRUE, frame_nb |-> -1, i |-> 0, gate_nb |-> 0,
     exposure_time |-> 0, used |-> <<>>, frame |-> EndMarker, err |-> "none",
     \* what happened since the start command, for the properties
     flags |-> [gateen |-> 0, trigen |-> 0, conttrigen |-> 0],
     put |-> <<>>, taken |-> 0, highs |-> 0, waits |-> 0, predelays |-> 0,
     exposed |-> 0, pulses |-> <<>>, killed |-> FALSE, atStop |-> 0]

NoReply == [cmd |-> "none", code |-> "none",
            status |-> [running |-> 0, exposing |-> 0, readout |-> 0]]

IdleHandler == [pc |-> "idle", n |-> 0, left |-> 0, sent |-> <<>>, got |-> <<>>]

\* Mythen2.__init__ (simulator/core.py:445-465), with an input and an output
\* signal configured.
InitSim ==
    /\ config = InitConfig
    /\ acq = NoAcq
    /\ sig = 0
    /\ rd = IdleHandler
    /\ reply = NoReply

\* The acquisition class chosen with single trigger before continuous.
klass_trigger_first(gate_enabled, continuous_trigger_enabled, trigger_enabled) ==
    IF gate_enabled # 0 THEN Gate
    ELSE IF trigger_enabled # 0 THEN SingleTrigger
    ELSE IF continuous_trigger_enabled # 0 THEN ContinuousTrigger
    ELSE Internal

\* start_acquisition (simulator/core.py:363-370)
klass(gate_enabled, continuous_trigger_enabled, trigger_enabled) ==
    IF gate_enabled # 0 THEN Gate
    ELSE IF continuous_trigger_enabled # 0 THEN ContinuousTrigger
    ELSE IF trigger_enabled # 0 THEN SingleTrigger
    ELSE Internal

\* Every triggered acquisition waits inside the loop over the frames.
waits_in_loop_any_trigger(k) == k \in {SingleTrigger, ContinuousTrigger}

\* ContinuousTriggerAcquisition.steps (simulator/core.py:318-320) calls
\* wait_high inside the loop over the frames,
waits_in_loop(k) == k = ContinuousTrigger

\* SingleTriggerAcquisition.steps (simulator/core.py:310-311) before it.
waits_before_loop(k) == k = SingleTrigger

\* One gate per frame whatever the gate count.
more_gates_single(gate_nb, nb_gates) == gate_nb < 1

\* while gate_nb < nb_gates (simulator/core.py:333)
more_gates(gate_nb, nb_gates) == gate_nb < nb_gates

\* The greenlet swallows the exit request and goes on.
kill_ignored(a, frame) == a

\* Greenlet.kill (simulator/core.py:530) raises GreenletExit at the blocking
\* call of the engine; run catches it (simulator/core.py:234-241).  frame is
\* what self.create_frame(frame_nb+1) gives: create_frame takes two
\* arguments and is called here with one, which raises TypeError inside the
\* except clause, so that only the finally clause runs after it.
kill(a, frame) ==
    IF a.pc \in {"none", "dead"} THEN a
    ELSE IF a.frame_nb < a.nb_frames - 1
         THEN IF frame = "TypeError"
              THEN [a EXCEPT !.pc = "dead", !.finished = "True",
                             !.err = "TypeError"]
              ELSE [a EXCEPT !.pc = "dead", !.finished = "True",
                             !.buffer = @ \o <<frame, EndMarker>>,
                             !.put = @ \o <<frame, EndMarker>>]
         ELSE [a EXCEPT !.pc = "dead", !.finished = "True",
                        !.buffer = Append(@, EndMarker),
                        !.put = Append(@, EndMarker)]

\* The call self.create_frame(frame_nb+1) of simulator/core.py:236 against
\* the signature create_frame(self, frame_nb, exposure_time) of line 247.
terminal_frame(frame_nb) == "TypeError"

\* Mythen2.status (simulator/core.py:489-493); acq_task.ready() holds when
\* the greenlet is dead.
status(a) ==
    LET running == IF a.pc = "dead" THEN 0 ELSE 1 IN
    [running |-> running,
     exposing |-> IF running = 1 /\ a.exposing THEN 1 ELSE 0,
     readout |-> IF a.buffer = <<>> THEN 1 ELSE 0]

\* Mythen.status (core.py:565-575): bit 0 of the status word.
client_status(st) == IF st.running = 1 THEN "RUNNING" ELSE "ON"

\* The engine can run now: it was just spawned, or the event it waits for
\* is set.
Runnable(a) ==
    \/ a.pc = "spawned"
    \/ a.pc = "wait_high" /\ a.high
    \/ a.pc = "wait_low" /\ a.low

\* The command handler can take the next message.
HandlerIdle == rd.pc \in {"idle", "done"} /\ ~Runnable(acq)

\* run returns without having set finished.
finish_unmarked(a) == [a EXCEPT !.pc = "dead"]

\* The generator steps is exhausted and run returns through its finally
\* clause (simulator/core.py:239-241).
finish(a) == [a EXCEPT !.pc = "dead", !.finished = "True"]

\* BaseAcquisition.acquire after expose returned t (simulator/core.py:
\* 263-267): the frame is created, then gevent.sleep(delay).
after_expose(a, t) ==
    [a EXCEPT !.frame = create_frame(a.i, t, a.used), !.pc = "delay_after"]

\* GateAcquisition.expose at the top of its loop (simulator/core.py:333-335):
\* wait_high returns at once when the input is high.
gate_loop(a) ==
    IF more_gates(a.gate_nb, a.nb_gates)
    THEN IF a.high THEN [a EXCEPT !.waits = @ + 1, !.exposing = TRUE,
                                  !.pc = "wait_low"]
                   ELSE [a EXCEPT !.waits = @ + 1, !.pc = "wait_high"]
    ELSE after_expose(a, a.exposure_time)

\* acquire(frame_nb) up to the first blocking call of expose
\* (simulator/core.py:260-262, 250-254, 329-334).
acquire(a, frame_nb) ==
    IF a.klass = Gate
    THEN gate_loop([a EXCEPT !.i = frame_nb, !.gate_nb = 0,
                             !.exposure_time = 0, !.used = <<>>,
                             !.exposed = @ + 1])
    ELSE [a EXCEPT !.i = frame_nb, !.exposing = TRUE, !.exposed = @ + 1,
                   !.pc = "exposing"]

\* self.wait_high(); gevent.sleep(self.delay_before)
\* (simulator/core.py:310-311, 319-320)
trigger(a) ==
    IF a.high THEN [a EXCEPT !.waits = @ + 1, !.predelays = @ + 1,
                             !.pc = "delay_before"]
              ELSE [a EXCEPT !.waits = @ + 1, !.pc = "wait_high"]

\* for frame_nb in range(self.nb_frames) (simulator/core.py:244, 312, 318)
loop_top(a, frame_nb) ==
    IF more_frames(frame_nb, a.nb_frames)
    THEN IF waits_in_loop(a.klass) THEN trigger([a EXCEPT !.i = frame_nb])
                                   ELSE acquire(a, frame_nb)
    ELSE finish(a)

\* A setting is written: -gateen, -trigen, -conttrigen, -frames, -gates
\* (simulator/core.py:542-545).  The client configures the device while its
\* first acquisition has not been started; an acquisition reads the
\* configuration only when it is created.
SetConfig ==
    /\ HandlerIdle
    /\ acq.pc = "none"
    /\ \/ \E name \in {"gateen", "trigen", "conttrigen"}, v \in 0..1 :
             config' = [config EXCEPT ![name] = v]
       \/ \E v \in 0..MaxFrames : config' = [config EXCEPT !.frames = v]
       \/ \E v \in 1..MaxGates : config' = [config EXCEPT !.gates = v]
    /\ reply' = [NoReply EXCEPT !.cmd = "set", !.code = "OK"]
    /\ UNCHANGED <<acq, sig, rd>>

\* -start (simulator/core.py:526-528, 350-374): the acquisition is created
\* from the configuration and its greenlet is spawned.  The client starts
\* an acquisition when none is running.
StartCmd ==
    /\ HandlerIdle
    /\ acq.pc \in {"none", "dead"}
    /\ acq' = [NoAcq EXCEPT
                 !.pc = "spawned",
                 !.klass = klass(config.gateen, config.conttrigen, config.trigen),
                 !.nb_frames = config.frames,
                 !.nb_gates = IF config.gateen # 0 THEN config.gates ELSE 1,
                 !.flags = [gateen |-> config.gateen, trigen |-> config.trigen,
                            conttrigen |-> config.conttrigen]]
    /\ reply' = [NoReply EXCEPT !.cmd = "start", !.code = "OK"]
    /\ rd' = IdleHandler
    /\ UNCHANGED <<config, sig>>

\* -stop (simulator/core.py:529-531): kill blocks until the greenlet is
\* dead, then OK is sent.  Without an acquisition task the handler fails
\* with AttributeError.
StopCmd ==
    /\ HandlerIdle
    /\ IF acq.pc = "none"
       THEN /\ reply' = [NoReply EXCEPT !.cmd = "stop", !.code = "error"]
            /\ UNCHANGED acq
       ELSE /\ acq' = [kill(acq, terminal_frame(acq.frame_nb + 1)) EXCEPT
                         !.killed = @ \/ acq.pc # "dead",
                         !.atStop = IF acq.pc # "dead" THEN acq.frame_nb + 1
                                                      ELSE @]
            /\ reply' = [NoReply EXCEPT !.cmd = "stop", !.code = "OK"]
    /\ UNCHANGED <<config, sig, rd>>

\* -get status (simulator/core.py:519-520)
StatusQuery ==
    /\ HandlerIdle
    /\ reply' = IF acq.pc = "none"
                THEN [NoReply EXCEPT !.cmd = "status", !.code = "error"]
                ELSE [cmd |-> "status", code |-> "data", status |-> status(acq)]
    /\ UNCHANGED <<config, acq, sig, rd>>

\* -readout n (simulator/core.py:532-534)
ReadoutCmd ==
    /\ HandlerIdle
    /\ Len(rd.got) = Len(rd.sent)
    /\ acq.pc # "none"
    /\ \E n \in 0..MaxFrames :
          rd' = [IdleHandler EXCEPT !.pc = "serving", !.n = n, !.left = n]
    /\ reply' = [NoReply EXCEPT !.cmd = "readout", !.code = "data"]
    /\ UNCHANGED <<config, acq, sig>>

\* One iteration of the loop of the readout handler (simulator/core.py:
\* 534-538): buffer.get() blocks while the queue is empty.
ServeFrame ==
    /\ rd.pc = "serving"
    /\ ~Runnable(acq)
    /\ IF rd.left = 0
       THEN /\ rd' = [rd EXCEPT !.pc = "done"]
            /\ UNCHANGED acq
       ELSE /\ acq.buffer # <<>>
            /\ acq' = [acq EXCEPT !.buffer = Tail(@), !.taken = @ + 1]
            /\ rd' = IF Head(acq.buffer) = EndMarker
                     THEN [rd EXCEPT !.pc = "done"]
                     ELSE [rd EXCEPT !.left = @ - 1,
                                     !.sent = Append(@, Head(acq.buffer).fill)]
    /\ UNCHANGED <<config, sig, reply>>

\* The client's streaming readout (core.py:1028-1032) reads the next frame
\* of the reply and yields it with its index.
ClientFrame ==
    /\ Len(rd.got) < Len(rd.sent)
    /\ rd' = [rd EXCEPT !.got = Append(@, [i |-> Len(rd.got),
                                           fill |-> rd.sent[Len(rd.got) + 1]])]
    /\ UNCHANGED <<config, acq, sig, reply>>

\* The input signal goes high (simulator/core.py:473-475, 293-295); the
\* acquisition classes without trigger ignore it, and nothing waits for the
\* events of an acquisition that is over.
InputHigh ==
    /\ ~Runnable(acq)
    /\ acq.pc \notin {"none", "dead"}
    /\ acq.klass # Internal
    /\ ~acq.high
    /\ acq.highs < MaxEdges
    /\ acq' = [acq EXCEPT !.low = FALSE, !.high = TRUE, !.highs = @ + 1]
    /\ UNCHANGED <<config, sig, rd, reply>>

\* The input signal goes low after having been high for d time units
\* (simulator/core.py:477-479, 297-299).
InputLow ==
    /\ ~Runnable(acq)
    /\ acq.pc \notin {"none", "dead"}
    /\ acq.klass # Internal
    /\ acq.high
    /\ \E d \in (IF acq.klass = Gate THEN Durations ELSE {1}) :
          acq' = [acq EXCEPT !.high = FALSE, !.low = TRUE,
                             !.pulses = Append(@, d)]
    /\ UNCHANGED <<config, sig, rd, reply>>

\* The greenlet starts: BaseAcquisition.run up to the first blocking call
\* (simulator/core.py:227-232).
TaskBegin ==
    /\ acq.pc = "spawned"
    /\ LET a == [acq EXCEPT !.finished = "False", !.frame_nb = -1] IN
       acq' = IF waits_before_loop(a.klass) THEN trigger([a EXCEPT !.i = -1])
                                            ELSE loop_top(a, 0)
    /\ LET a == acq' IN
       sig' = IF a.pc = "exposing" THEN 1 ELSE sig
    /\ UNCHANGED <<config, rd, reply>>

\* wait_high returns (simulator/core.py:301-302): in steps the delay before
\* the frame follows, in GateAcquisition.expose the gate opens
\* (simulator/core.py:335-340).
HighSeen ==
    /\ acq.pc = "wait_high"
    /\ acq.high
    /\ IF acq.klass = Gate
       THEN /\ acq' = [acq EXCEPT !.exposing = TRUE, !.pc = "wait_low"]
            /\ sig' = 1
       ELSE /\ acq' = [acq EXCEPT !.predelays = @ + 1, !.pc = "delay_before"]
            /\ UNCHANGED sig
    /\ UNCHANGED <<config, rd, reply>>

\* wait_low returns (simulator/core.py:340-346): the gate closes and the
\* time the input was high is added to the exposure time of the frame.
LowSeen ==
    /\ acq.pc = "wait_low"
    /\ acq.low
    /\ LET a == [acq EXCEPT !.exposing = FALSE,
                            !.exposure_time = @ + acq.pulses[Len(acq.pulses)],
                            !.used = Append(@, Len(acq.pulses)),
                            !.gate_nb = @ + 1]
           b == gate_loop(a)
       IN  /\ acq' = b
           /\ sig' = IF b.pc = "wait_low" THEN 1 ELSE 0
    /\ UNCHANGED <<config, rd, reply>>

\* gevent.sleep(self.delay_before) is over (simulator/core.py:311-313,
\* 320-321).
DelayBeforeDone ==
    /\ acq.pc = "delay_before"
    /\ acq' = IF acq.i = -1 THEN loop_top(acq, 0) ELSE acquire(acq, acq.i)
    /\ LET a == acq' IN
       sig' = IF a.pc = "exposing" THEN 1 ELSE sig
    /\ UNCHANGED <<config, rd, reply>>

\* gevent.sleep(self.exposure_time) is over (simulator/core.py:254-258).
ExposureDone ==
    /\ acq.pc = "exposing"
    /\ acq' = after_expose([acq EXCEPT !.exposing = FALSE], ExposureTime)
    /\ sig' = 0
    /\ UNCHANGED <<config, rd, reply>>

\* gevent.sleep(delay) is over (simulator/core.py:267-269): acquire returns
\* the frame, run puts it in the buffer (simulator/core.py:232-233) and
\* steps goes on with the next frame.
DelayAfterDone ==
    /\ acq.pc = "delay_after"
    /\ acq' = loop_top([acq EXCEPT !.buffer = Append(@, acq.frame),
                                   !.put = Append(@, acq.frame),
                                   !.frame_nb = acq.i],
                       acq.i + 1)
    /\ LET a == acq' IN
       sig' = IF a.pc \in {"exposing", "wait_low"} THEN 1 ELSE sig
    /\ UNCHANGED <<config, rd, reply>>

----------------------------------------------------------------------------
\* The command handler Mythen2._handle_message (simulator/core.py:507-545)
\* with its two counters, and the start command at any time.

\* Largest number of messages one device is sent.
MaxMessages == 4
\* Largest number of engines left running by later start commands.
MaxOrphans == 1

\* Int("commandid", 0), Int("commandsetid", 0) (simulator/core.py:148-149);
\* handled and last record the messages for the properties.
InitHandler ==
    /\ ids = [commandid |-> 0, commandsetid |-> 0, handled |-> 0,
              last |-> "none"]
    /\ orphans = <<>>

\* self.config["commandid"] += 1; if cmd != "get":
\* self.config["commandsetid"] += 1 (simulator/core.py:512-514)
count(i, cmd) ==
    [i EXCEPT !.commandid = @ + 1,
              !.commandsetid = IF cmd # "get" THEN @ + 1 ELSE @,
              !.handled = @ + 1, !.last = cmd]

\* The head of _handle_message for the message "-<cmd> ...".
Counted(cmd) ==
    /\ ids.handled < MaxMessages
    /\ ids' = count(ids, cmd)

\* "-commandid v" and "-commandsetid v" take the last branch of the handler
\* like every other setting (simulator/core.py:542-545): self[cmd] = data[0]
\* stores int(v) in the counter that was just incremented.
SetCounter ==
    /\ HandlerIdle
    /\ ids.handled < MaxMessages
    /\ \E name \in {"commandid", "commandsetid"}, v \in 0..1 :
          /\ ids' = [count(ids, name) EXCEPT ![name] = v]
          /\ reply' = [NoReply EXCEPT !.cmd = name, !.code = "OK"]
    /\ UNCHANGED <<config, acq, sig, rd, orphans>>

\* -start while the engine of an earlier start is alive (simulator/core.py:
\* 481-483, 526-528): acq_task is replaced by the new greenlet; nothing kills
\* or joins the old one, which goes on running with its own acquisition.
Restart ==
    /\ HandlerIdle
    /\ acq.pc \notin {"none", "dead"}
    /\ Len(orphans) < MaxOrphans
    /\ orphans' = Append(orphans, acq)
    /\ acq' = [NoAcq EXCEPT
                 !.pc = "spawned",
                 !.klass = klass(config.gateen, config.conttrigen, config.trigen),
                 !.nb_frames = config.frames,
                 !.nb_gates = IF config.gateen # 0 THEN config.gates ELSE 1,
                 !.flags = [gateen |-> config.gateen, trigen |-> config.trigen,
                            conttrigen |-> config.conttrigen]]
    /\ reply' = [NoReply EXCEPT !.cmd = "start", !.code = "OK"]
    /\ rd' = IdleHandler
    /\ UNCHANGED <<config, sig>>

\* The engine a of a replaced task when its sleep is over.  The input
\* signal reaches self.acq only (simulator/core.py:473-479), so that the
\* events of a replaced acquisition stay as they were.
sleep_over(a) ==
    CASE a.pc = "delay_before" ->
           IF a.i = -1 THEN loop_top(a, 0) ELSE acquire(a, a.i)
      [] a.pc = "exposing" ->
           after_expose([a EXCEPT !.exposing = FALSE], ExposureTime)
      [] a.pc = "delay_after" ->
           loop_top([a EXCEPT !.buffer = Append(@, a.frame),
                              !.put = Append(@, a.frame),
                              !.frame_nb = a.i],
                    a.i + 1)

\* output_signal.gate_high() / gate_low() of the step from a to b
\* (simulator/core.py:253-256, 337, 341).
signal_after(a, b, s) ==
    IF b.pc \in {"exposing", "wait_low"} THEN 1
    ELSE IF a.pc = "exposing" THEN 0 ELSE s

\* A sleep of the engine of a replaced task ends.
OrphanStep ==
    /\ ~Runnable(acq)
    /\ \E k \in 1..Len(orphans) :
          /\ orphans[k].pc \in {"delay_before", "exposing", "delay_after"}
          /\ orphans' = [orphans EXCEPT ![k] = sleep_over(@)]
          /\ sig' = signal_after(orphans[k], sleep_over(orphans[k]), sig)
    /\ UNCHANGED <<config, acq, rd, reply, ids>>

----------------------------------------------------------------------------
\* The device models Mythen and Mythen4 (mythendcs/core.py:294-1010) and the
\* command() exchange they are built on.  A Python value is written as its
\* repr: "True" and "False" are the two values of type bool, "0", "1", "2"
\* are ints and the others are strs.

\* Error codes (core.py:24-28).
ERR_MYTHEN_COMM_LENGTH == -40
ERR_MYTHEN_COMM_TIMEOUT == -41
ERR_MYTHEN_BAD_PARAMETER == -44
ERR_MYHEN_CMD_REMOVED == -45
ERR_MYTHEN_COMM_ERROR == -46

\* SETTINGS_MODES and SETTINGS (core.py:13-14)
SETTINGS_MODES == {"StdCu", "StdMo", "HgCr", "HgCu", "FastCu", "FastMo"}
SETTINGS == {"Cu", "Mo", "Cr", "Ag"}

\* Largest number of modules of a device ("nmaxmodules").
MaxModules == 3

\* The bytes replies are made of in the model: enough for the sign bit, the
\* carries between bytes and the error codes.
Bytes == {0, 1, 128, 255}

\* The type of the value is not looked at.
is_not_bool_never(value) == FALSE

\* type(value) != bool / type(value) is not bool (core.py:413, 447, 631,
\* 750, 761, 772, 783, 794)
is_not_bool(value) == value \notin {"True", "False"}

\* int(value) of the '%d' % int(value) formatting of a command.
int(value) ==
    CASE value = "True" -> 1
      [] value = "False" -> 0
      [] value = "0" -> 0
      [] value = "1" -> 1
      [] value = "2" -> 2
      [] value = "3" -> 3
      [] value = "4" -> 4

\* The values int() is defined on; int of another raises ValueError.
Numeric == {"True", "False", "0", "1", "2", "3", "4"}

\* '%d' % n
fmt_d(n) ==
    CASE n = 0 -> "0"
      [] n = 1 -> "1"
      [] n = 2 -> "2"
      [] n = 3 -> "3"
      [] n = 4 -> "4"

\* bool(value) of a decoded reply, as a Python value.
bool(n) == IF n # 0 THEN "True" ELSE "False"

\* struct.pack("<i", n) (simulator/core.py:74-76): four bytes, little endian,
\* two's complement.
pack_i(n) ==
    LET low == n % 16777216
        high == ((n - low) \div 16777216) % 256
    IN <<low % 256, (low \div 256) % 256, (low \div 65536) % 256, high>>

\* The four bytes read as an unsigned number, without the sign of the
\* most significant byte.
to_int_unsigned(d) ==
    d[1] + 256 * d[2] + 65536 * d[3] + 16777216 * (d[4] % 128)

\* to_int (core.py:247-248): struct.unpack_from("<i", d)[0], the first four
\* bytes as a signed little-endian integer.
to_int(d) ==
    d[1] + 256 * d[2] + 65536 * d[3]
      + 16777216 * (IF d[4] >= 128 THEN d[4] - 256 ELSE d[4])

\* to_int_list (core.py:259-260): np.frombuffer(d, dtype="<i4")
to_int_list(d) ==
    [k \in 1..(Len(d) \div 4) |-> to_int(SubSeq(d, 4 * k - 3, 4 * k))]

\* What connection.write_read ends with: data returned, or an exception.
Returned(data) == [exc |-> "none", data |-> data]
Raised(e) == [exc |-> e, data |-> <<>>]

\* command (core.py:267-284) on the outcome r of connection.write_read:
\* what it raises, with the error code of a MythenError, or what it returns.
command(r) ==
    IF r.exc = "socket.timeout"
    THEN [exc |-> "MythenError", code |-> ERR_MYTHEN_COMM_TIMEOUT, ret |-> <<>>]
    ELSE IF r.exc # "none"
    THEN [exc |-> r.exc, code |-> 0, ret |-> <<>>]
    ELSE IF Len(r.data) = 4 /\ to_int(r.data) < 0
    THEN [exc |-> "MythenError", code |-> to_int(r.data), ret |-> <<>>]
    ELSE [exc |-> "none", code |-> 0, ret |-> r.data]

\* Mythen.MAX_BUFF_SIZE_MODULE and Mythen.MAX_CHANNELS (core.py:299-300)
MAX_BUFF_SIZE_MODULE == 10000
MAX_CHANNELS == 1280

\* The classes of device model.
Legacy == "Mythen"
Extended == "Mythen4"

\* The integer settings of a device, by the keyword of their command.
DevKeys ==
    {"badchannelinterpolation", "flatfieldcorrection", "ratecorrection",
     "trigen", "conttrigen", "gateen", "inpol", "outpol", "frames",
     "nmodules", "delbef", "delafter", "gates", "systemnum"}

\* The channel counts of the modules of a device ("modchannels").
ModChannels == [k \in 1..MaxModules |-> 1 + (k % 2)]

\* A device with n active modules and the defaults of its other settings
\* (simulator/core.py:146-190).
NewDevice(n) ==
    [conf |-> [k \in DevKeys |->
                 CASE k = "frames" -> 1
                   [] k = "gates" -> 1
                   [] k = "nmodules" -> n
                   [] OTHER -> 0],
     settings |-> "auto"]

\* OK (simulator/core.py:196)
OK == <<0, 0, 0, 0>>

RECURSIVE pack_list(_)
\* struct.pack("<{n}i", *v[:n]) (simulator/core.py:110-113)
pack_list(v) == IF v = <<>> THEN <<>> ELSE pack_i(Head(v)) \o pack_list(Tail(v))

\* The reply of the device to "-get <name>" (simulator/core.py:516-522).
get_reply(dev, name) ==
    CASE name = "modchannels" ->
           pack_list(SubSeq(ModChannels, 1, dev.conf["nmodules"]))
      [] name = "badchannels" ->
           pack_list([k \in 1..sum(SubSeq(ModChannels, 1, dev.conf["nmodules"]))
                        |-> 10 * dev.conf["systemnum"] + k])
      [] name = "settingsmode" -> <<dev.settings>>
      [] name = "settings" ->
           pack_i(CASE dev.settings \in {"StdCu", "StdMo"} -> 0
                    [] dev.settings \in {"HgCr", "HgCu"} -> 1
                    [] dev.settings \in {"FastCu", "FastMo"} -> 2
                    [] OTHER -> 3)
      [] OTHER -> pack_i(dev.conf[name])

\* The device after "-<cmd> <data>" (simulator/core.py:542-545):
\* self[cmd] = data[0].
set_device(dev, cmd, data) ==
    IF cmd = "settings"
    THEN [dev EXCEPT !.settings = data]
    ELSE IF cmd \in DevKeys
    THEN [dev EXCEPT !.conf[cmd] = int(data)]
    ELSE dev

\* fobj.read(size): at most size bytes of what the peer sent.
Take(data, size) == SubSeq(data, 1, IF Len(data) < size THEN Len(data) ELSE size)

\* What an exchange with the device can meet: the device does what it is
\* asked and replies; it refuses with an error code; the reply does not come
\* in time; the connection fails; or write_read returns b"" because the peer
\* closed the stream.
Faults == {"nack", "timeout", "oserror", "empty"}

\* connection.write_read(cmd, size) against the device dev, under the
\* outcome o: the device afterwards and what write_read ends with.  The
\* command "-<c> <a>" is written as the pair of c and a.
transact(dev, c, a, o, size) ==
    CASE o = "ok" ->
           IF c = "get"
           THEN [dev |-> dev, rsp |-> Returned(Take(get_reply(dev, a), size))]
           ELSE [dev |-> set_device(dev, c, a),
                 rsp |-> Returned(Take(OK, size))]
      [] o = "nack" -> [dev |-> dev, rsp |-> Returned(Take(pack_i(-1), size))]
      [] o = "timeout" -> [dev |-> dev, rsp |-> Raised("socket.timeout")]
      [] o = "late" -> [dev |-> set_device(dev, c, a),
                        rsp |-> Raised("socket.timeout")]
      [] o = "oserror" -> [dev |-> dev, rsp |-> Raised("OSError")]
      [] o = "empty" -> [dev |-> dev, rsp |-> Returned(<<>>)]

\* The attributes of a device model that cache what was written to the device.
CacheKeys ==
    {"_frames", "_trigger", "_trigger_cont", "_gatemode", "_inputhigh",
     "_outputhigh"}

\* self._num_module_channels: None, or the array of channel counts.
None == [none |-> TRUE, v |-> <<>>]
Array(v) == [none |-> FALSE, v |-> v]

\* No device model: the variable holds the device only.
NoMythen(dev) ==
    [klass |-> "none", dev |-> dev, cache |-> [k \in CacheKeys |-> "unset"],
     nmods |-> 0, nchannels |-> 0, buff |-> 0, modch |-> None]

\* A call in progress on the device model m: the commands written so far
\* (tx), the exception raised (exc, with the code of a MythenError), the
\* reply of the last command (ret), the integer (num) or array (arr)
\* decoded last and the value the call returns (val).  The exchange of the
\* f-th command of the call meets the fault o.
Begin(m, f, o) ==
    [m |-> m, tx |-> <<>>, exc |-> "none", code |-> 0, ret |-> <<>>,
     val |-> "None", num |-> 0, arr |-> <<>>, f |-> f, o |-> o]

\* raise e
raise(s, e, code) ==
    IF s.exc # "none" THEN s ELSE [s EXCEPT !.exc = e, !.code = code]

\* Mythen.command (core.py:342-348): command(self.connection, cmd,
\* size=self.buff)
exchange(s, c, a) ==
    IF s.exc # "none" THEN s
    ELSE With(transact(s.m.dev, c, a,
                       IF Len(s.tx) + 1 = s.f THEN s.o ELSE "ok", s.m.buff),
              LAMBDA x :
         With(command(x.rsp), LAMBDA r :
           [s EXCEPT !.m.dev = x.dev,
                     !.tx = Append(@, [c |-> c, a |-> a]),
                     !.exc = r.exc, !.code = r.code, !.ret = r.ret]))

\* to_int(raw_value) of the reply just received; struct.unpack_from needs
\* four bytes.
decode(s) ==
    IF s.exc # "none" THEN s
    ELSE IF Len(s.ret) < 4 THEN [s EXCEPT !.exc = "struct.error"]
    ELSE [s EXCEPT !.num = to_int(s.ret)]

\* The settings that take a bool, with the keyword of their command and the
\* attribute that caches them (core.py:406-415, 440-449, 625-633, 748-797).
BoolAttrs ==
    {"badchnintrpl", "flatfield", "rate", "triggermode", "continuoustrigger",
     "gatemode", "outputhigh", "inputhigh"}

\* The settings that are written as an integer without a check
\* (core.py:461-468, 802-823).
IntAttrs == {"frames", "delay_trigger", "delay_frame", "num_gates"}

keyword(name) ==
    CASE name = "badchnintrpl" -> "badchannelinterpolation"
      [] name = "flatfield" -> "flatfieldcorrection"
      [] name = "rate" -> "ratecorrection"
      [] name = "triggermode" -> "trigen"
      [] name = "continuoustrigger" -> "conttrigen"
      [] name = "gatemode" -> "gateen"
      [] name = "outputhigh" -> "outpol"
      [] name = "inputhigh" -> "inpol"
      [] name = "frames" -> "frames"
      [] name = "delay_trigger" -> "delbef"
      [] name = "delay_frame" -> "delafter"
      [] name = "num_gates" -> "gates"

cached(name) ==
    CASE name = "triggermode" -> "_trigger"
      [] name = "continuoustrigger" -> "_trigger_cont"
      [] name = "gatemode" -> "_gatemode"
      [] name = "outputhigh" -> "_outputhigh"
      [] name = "inputhigh" -> "_inputhigh"
      [] name = "frames" -> "_frames"
      [] OTHER -> "none"

\* self.<cached> = value after the command went through
store(s, name, value) ==
    IF s.exc # "none" \/ cached(name) = "none" THEN s
    ELSE [s EXCEPT !.m.cache[cached(name)] = value]

\* Every attribute of the extended generation is handled as by the legacy one.
removed_never(cls, name) == FALSE

\* The properties Mythen4 overrides to raise ERR_MYHEN_CMD_REMOVED, setter
\* and getter alike (core.py:960-982).
removed(cls, name) ==
    cls = Extended /\ name \in {"outputhigh", "inputhigh", "settingsmode"}

\* setattr(mythen, name, value): the property setters of Mythen and Mythen4.
setter(s, name, value) ==
    CASE removed(s.m.klass, name) ->
           raise(s, "MythenError", ERR_MYHEN_CMD_REMOVED)
      [] name \in BoolAttrs /\ ~removed(s.m.klass, name) ->
           IF is_not_bool(value)
           THEN raise(s, "MythenError", ERR_MYTHEN_BAD_PARAMETER)
           ELSE IF value \notin Numeric THEN raise(s, "ValueError", 0)
           ELSE store(exchange(s, keyword(name), fmt_d(int(value))), name, value)
      [] name \in IntAttrs ->
           IF value \notin Numeric THEN raise(s, "TypeError", 0)
           ELSE store(exchange(s, keyword(name), fmt_d(int(value))), name, value)
      [] name = "settingsmode" /\ ~removed(s.m.klass, name) ->
           \* Mythen.settingsmode (core.py:550-559)
           IF value \notin SETTINGS_MODES
           THEN raise(s, "MythenError", ERR_MYTHEN_BAD_PARAMETER)
           ELSE exchange(s, "settings", value)
      [] name = "settings" ->
           \* Mythen4.settings (core.py:1002-1009); Mythen.settings has no
           \* setter (core.py:516-533)
           IF s.m.klass = Legacy THEN raise(s, "AttributeError", 0)
           ELSE IF value \notin SETTINGS
           THEN raise(s, "MythenError", ERR_MYTHEN_BAD_PARAMETER)
           ELSE exchange(s, "settings", value)

\* Mythen4.num_module_channels (core.py:863-869)
num_module_channels(s) ==
    IF s.exc # "none" \/ ~s.m.modch.none THEN s
    ELSE With(exchange(s, "get", "modchannels"), LAMBDA s1 :
           IF s1.exc # "none" THEN s1
           ELSE [s1 EXCEPT !.m.modch = Array(to_int_list(s1.ret))])

\* Mythen4.settings (core.py:987-989) and Mythen4.autosettings
\* (core.py:984-985) raise ERR_MYHEN_CMD_REMOVED.
settings_removed(cls) == cls = Extended

\* getattr(mythen, name): the property getters of Mythen and Mythen4.
getter(s, name) ==
    CASE removed(s.m.klass, name) \/ (name = "settings" /\ settings_removed(s.m.klass)) ->
           raise(s, "MythenError", ERR_MYHEN_CMD_REMOVED)
      [] name \in {"badchnintrpl", "flatfield", "rate"} ->
           With(decode(exchange(s, "get", keyword(name))), LAMBDA s1 :
             IF s1.exc # "none" THEN s1
             ELSE [s1 EXCEPT !.val = bool(to_int(s1.ret))])
      [] cached(name) # "none" /\ ~removed(s.m.klass, name) ->
           [s EXCEPT !.val = s.m.cache[cached(name)]]
      [] name \in {"delay_trigger", "delay_frame", "num_gates"} ->
           decode(exchange(s, "get", keyword(name)))
      [] name = "system_serial_number" ->
           \* Mythen4.system_serial_number (core.py:892-894)
           With(decode(exchange(s, "get", "systemnum")), LAMBDA s1 :
             IF s1.exc # "none" THEN s1 ELSE [s1 EXCEPT !.arr = <<s1.num>>])
      [] name = "num_module_channels" ->
           \* Mythen4.num_module_channels (core.py:862-869)
           With(num_module_channels(s), LAMBDA s1 :
             IF s1.exc # "none" THEN s1 ELSE [s1 EXCEPT !.arr = s1.m.modch.v])
      [] name = "flatfieldconf" ->
           \* Mythen.flatfieldconf (core.py:419-425):
           \* connection.write_read_exactly_into(b"-get flatfield", values)
           \* with _read_exactly_into (core.py:194-205), which returns the
           \* bytes of the buffer; the flat field of the device is 0 for
           \* every channel (simulator/core.py:177).
           With(IF Len(s.tx) + 1 = s.f THEN s.o ELSE "ok", LAMBDA o :
           With([s EXCEPT !.tx = Append(@, [c |-> "get", a |-> "flatfield"])],
                LAMBDA s1 :
             CASE s.exc # "none" -> s
               [] o = "ok" ->
                    [s1 EXCEPT !.arr = pack_list([k \in 1..s.m.nchannels |-> 0])]
               [] o = "nack" /\ 4 * s.m.nchannels <= 4 ->
                    [s1 EXCEPT !.arr = Take(pack_i(-1), 4 * s.m.nchannels)]
               [] o = "empty" -> raise(s1, "MythenError", ERR_MYTHEN_COMM_ERROR)
               [] o = "oserror" -> raise(s1, "OSError", 0)
               [] OTHER -> raise(s1, "socket.timeout", 0)))
      [] name = "badchn" ->
           \* Mythen.badchn (core.py:383-392)
           With(exchange(s, "get", "badchannels"), LAMBDA s1 :
           With(to_int_list(s1.ret), LAMBDA values :
             IF s1.exc # "none" THEN s1
             ELSE IF Len(values) # s1.m.nchannels
             THEN raise(s1, "MythenError", ERR_MYTHEN_COMM_LENGTH)
             ELSE [s1 EXCEPT !.arr = values]))
      [] name = "settings" /\ ~settings_removed(s.m.klass) ->
           \* Mythen.settings (core.py:516-533)
           With(decode(exchange(s, "get", "settings")), LAMBDA s1 :
             IF s1.exc # "none" THEN s1
             ELSE [s1 EXCEPT !.val =
                     CASE s1.num = 0 -> "Standard"
                       [] s1.num = 1 -> "Highgain"
                       [] s1.num = 2 -> "Fast"
                       [] OTHER -> "Unknown"])
      [] name = "settingsmode" /\ ~removed(s.m.klass, name) ->
           \* Mythen.settingsmode (core.py:538-548)
           With(exchange(s, "get", "settingsmode"), LAMBDA s1 :
             IF s1.exc # "none" THEN s1
             ELSE IF s1.ret = <<>> THEN raise(s1, "IndexError", 0)
             ELSE [s1 EXCEPT !.val = s1.ret[1]])

\* Mythen.autosettings (core.py:371-378) and Mythen4.autosettings
\* (core.py:984-985)
autosettings(s, value) ==
    IF settings_removed(s.m.klass)
    THEN raise(s, "MythenError", ERR_MYHEN_CMD_REMOVED)
    ELSE IF int(value) <= 0 THEN raise(s, "ValueError", 0)
    ELSE exchange(s, "autosettings", value)

\* Mythen.get_active_modules (core.py:497-500)
get_active_modules(s) == decode(exchange(s, "get", "nmodules"))

\* Mythen.set_active_modules (core.py:502-506)
set_active_modules(s, modules) ==
    With(get_active_modules(s), LAMBDA s1 :
      IF s1.exc # "none" \/ s1.num = modules THEN s1
      ELSE exchange(s1, "nmodules", fmt_d(modules)))

\* _update without line 846: the channel counts cached before are used.
update_cached(s) ==
    With(num_module_channels(get_active_modules(s)), LAMBDA s1 :
      IF s1.exc # "none" THEN s1
      ELSE [s1 EXCEPT !.m.nmods = s1.num,
                      !.m.nchannels = sum(s1.m.modch.v),
                      !.m.buff = 4 * sum(s1.m.modch.v)])

\* Mythen4._update (core.py:845-852)
_update(s) ==
    IF s.exc # "none" THEN s
    ELSE With(num_module_channels(
                get_active_modules([s EXCEPT !.m.modch = None])), LAMBDA s1 :
           IF s1.exc # "none" THEN s1
           ELSE [s1 EXCEPT !.m.nmods = s1.num,
                           !.m.nchannels = sum(s1.m.modch.v),
                           !.m.buff = 4 * sum(s1.m.modch.v)])

\* Mythen4.set_active_modules (core.py:857-859)
set_active_modules4(s, value) == _update(set_active_modules(s, value))

\* Mythen.__init__ (core.py:305-324) with nmod modules
init_legacy(s, nmod) ==
    LET s0 == [s EXCEPT !.m.klass = Legacy,
                        !.m.buff = nmod * MAX_BUFF_SIZE_MODULE,
                        !.m.nchannels = nmod * MAX_CHANNELS,
                        !.m.nmods = nmod]
    IN setter(setter(setter(setter(setter(setter(s0,
         "frames", "1"), "triggermode", "False"), "gatemode", "False"),
         "inputhigh", "True"), "outputhigh", "True"),
         "continuoustrigger", "False")

\* Mythen4.__init__ (core.py:828-843); nmod = 0 stands for nmod=None
init_extended(s, nmod) ==
    With([s EXCEPT !.m.klass = Extended, !.m.modch = None,
                   !.m.buff = (IF nmod = 0 THEN 4 ELSE nmod)
                                * MAX_BUFF_SIZE_MODULE], LAMBDA s0 :
    With(IF nmod = 0 THEN get_active_modules(s0) ELSE s0, LAMBDA s1 :
      setter(setter(setter(setter(
        IF s1.exc # "none" THEN s1
        ELSE set_active_modules4(s1, IF nmod = 0 THEN s1.num ELSE nmod),
        "frames", "1"), "triggermode", "False"), "gatemode", "False"),
        "continuoustrigger", "False")))

\* Times are counted in quarters of a second.
\* timeout = 2.5 + 0.75 * self.nmods (core.py:367)
reset_timeout(nmods) == 10 + 3 * nmods

\* gevent.sleep(2 + 0.5 * self.config["nmodules"]) (simulator/core.py:524)
reset_duration(nmodules) == 8 + 2 * nmodules

\* The call s about to send "-reset": when the device sleeps for as long as
\* the socket waits or longer, the read of the reply times out although the
\* device does what it is asked.
in_time(s) ==
    IF /\ s.exc = "none"
       /\ Len(s.tx) + 1 # s.f
       /\ reset_timeout(s.m.nmods) <= reset_duration(s.m.dev.conf["nmodules"])
    THEN [s EXCEPT !.f = Len(s.tx) + 1, !.o = "late"]
    ELSE s

\* Mythen.start, Mythen.stop and Mythen.reset (core.py:350-369)
start(s) == exchange(s, "start", "")
stop(s) == exchange(s, "stop", "")
reset(s) ==
    With(exchange(in_time(s), "reset", ""), LAMBDA s1 :
      IF s1.exc # "none" THEN s1 ELSE [s1 EXCEPT !.m.cache["_frames"] = "1"])

\* No call has been made.
NoCall ==
    [op |-> "none", name |-> "none", value |-> "None",
     rsp |-> Returned(<<>>), tx |-> <<>>, exc |-> "none", code |-> 0,
     ret |-> <<>>, val |-> "None"]

\* The record of the call op(name, value) as it ended in s.
Ended(s, op, name, value) ==
    [NoCall EXCEPT !.op = op, !.name = name, !.value = value,
                   !.tx = s.tx, !.exc = s.exc, !.code = s.code,
                   !.ret = s.ret, !.val = s.val]

InitModel ==
    /\ my = NoMythen(NewDevice(MaxModules))
    /\ call = NoCall

\* What the constructor of the class leaves a setting at (core.py:319-324,
\* 840-843), or the default of the device (simulator/core.py:167-173).
rest(cls, name) ==
    CASE name \in {"frames", "num_gates"} -> "1"
      [] name \in {"delay_trigger", "delay_frame"} -> "0"
      [] cls = Legacy /\ name \in {"inputhigh", "outputhigh"} -> "True"
      [] OTHER -> "False"

\* The setting name of the device model m is as the constructor left it.
SettingAtRest(m, n) ==
    /\ m.dev.conf[keyword(n)] = int(rest(m.klass, n))
    /\ cached(n) # "none" =>
          m.cache[cached(n)] = (IF removed(m.klass, n) THEN "unset"
                                ELSE rest(m.klass, n))

\* A session changes one setting at a time and puts it back before it
\* changes another: every setting but name is as the constructor left it.
AtRest(m, name) ==
    /\ \A n \in BoolAttrs \ {name} : SettingAtRest(m, n)
    /\ name \notin {"settings", "settingsmode"} => m.dev.settings = "auto"

\* The faults a call of at most n commands can meet: the position of the
\* command and the fault; position 0: no command meets one.
FaultsOf(n) == {<<0, "nack">>} \cup ((1..n) \X Faults)

\* The values written to a setting.
ValuesOf(name) ==
    IF name \in {"settings", "settingsmode"} THEN {"Cu", "StdCu", "Y"}
    ELSE {"True", "False", "1"}

\* mythen = Mythen(connection, nmod) or Mythen4(connection, nmod); an
\* exception of __init__ leaves no device model.
Construct(k, nmod) ==
    /\ my.klass = "none"
    /\ \E fo \in FaultsOf(9) :
          LET s == IF k = Legacy
                   THEN init_legacy(Begin(my, fo[1], fo[2]), nmod)
                   ELSE init_extended(Begin(my, fo[1], fo[2]), nmod)
          IN /\ my' = IF s.exc = "none" THEN s.m ELSE NoMythen(s.m.dev)
             /\ call' = Ended(s, "__init__", k, fmt_d(nmod))

\* del mythen, and the device is switched off and on
Discard ==
    /\ my.klass # "none"
    /\ my' = NoMythen(NewDevice(MaxModules))
    /\ call' = NoCall

\* mythen.<name> = value
SetAttr ==
    /\ my.klass # "none"
    /\ \E name \in BoolAttrs \cup {"settings", "settingsmode"},
          fo \in FaultsOf(1) :
          /\ AtRest(my, name)
          /\ \E value \in ValuesOf(name) :
                LET s == setter(Begin(my, fo[1], fo[2]), name, value)
                IN /\ my' = s.m
                   /\ call' = Ended(s, "set", name, value)

\* mythen.<name>
GetAttr ==
    /\ my.klass # "none"
    /\ \E name \in BoolAttrs \cup {"settings", "settingsmode"},
          fo \in FaultsOf(1) :
          LET s == getter(Begin(my, fo[1], fo[2]), name)
          IN /\ my' = s.m
             /\ call' = Ended(s, "get", name, "None")

\* mythen.autosettings(value)
AutoSettings ==
    /\ my.klass # "none"
    /\ \E value \in {"0", "1"}, fo \in FaultsOf(1) :
          LET s == autosettings(Begin(my, fo[1], fo[2]), value)
          IN /\ my' = s.m
             /\ call' = Ended(s, "autosettings", "autosettings", value)

\* mythen.active_modules = n, or mythen.set_active_modules(n), on Mythen4
SetActiveModules ==
    /\ my.klass = Extended
    /\ \E n \in 1..MaxModules, fo \in FaultsOf(4) :
          LET s == set_active_modules4(Begin(my, fo[1], fo[2]), n)
          IN /\ my' = s.m
             /\ call' = Ended(s, "set_active_modules", "active_modules",
                              fmt_d(n))

\* mythen.set_active_modules(n) on Mythen
SetActiveModulesLegacy ==
    /\ my.klass = Legacy
    /\ \E n \in 1..MaxModules, fo \in FaultsOf(2) :
          \E s \in {set_active_modules(Begin(my, fo[1], fo[2]), n)} :
             /\ my' = s.m
             /\ call' = Ended(s, "set_active_modules", "active_modules",
                              fmt_d(n))

\* mythen.reset(); the call records the fault its command met
Reset ==
    /\ my.klass # "none"
    /\ \E fo \in FaultsOf(1) :
          \E s \in {reset(Begin(my, fo[1], fo[2]))} :
             /\ my' = s.m
             /\ call' = Ended(s, "reset",
                              IF fo[1] = 0 THEN "none" ELSE fo[2], "None")

\* mythen.frames = value
SetFrames ==
    /\ my.klass # "none"
    /\ AtRest(my, "none")
    /\ \E value \in {"1", "2"}, fo \in FaultsOf(1) :
          \E s \in {setter(Begin(my, fo[1], fo[2]), "frames", value)} :
             /\ my' = s.m
             /\ call' = Ended(s, "set", "frames", value)

\* The replies connection.write_read may end with: any bytes up to
\* MaxReply of them, or an exception.
MaxReply == 5
Replies ==
    {Raised("socket.timeout"), Raised("OSError")}
      \cup {Returned(d) : d \in UNION {[1..n -> Bytes] : n \in 0..MaxReply}}

\* command(connection, cmd) (core.py:267-284), called once, on a connection
\* whose write_read ends with r
Command ==
    /\ my.klass = "none"
    /\ call.op = "none"
    /\ \E r \in Replies :
          LET c == command(r)
          IN call' = [NoCall EXCEPT !.op = "command", !.rsp = r,
                                    !.exc = c.exc, !.code = c.code,
                                    !.ret = c.ret]
    /\ UNCHANGED my

----------------------------------------------------------------------------
\* The routing of attributes by the ChainGroup (group.py:19-94).  The
\* units are device models of the extended generation, each on a device
\* of its own.

\* ChainGroup.MASTER_SET, JOIN_GET and CONCAT_GET (group.py:19-35)
MASTER_SET ==
    {"triggermode", "continuoustrigger", "gatemode",
     "delay_trigger", "delay_frame", "num_gates"}

JOIN_GET ==
    {"assembly_date", "max_num_modules", "max_frame_rate",
     "firmware_version", "system_serial_number", "temperature"}

CONCAT_GET ==
    {"num_module_channels", "energy", "threshold", "badchn",
     "module_high_voltages", "module_temperatures", "module_humidities",
     "module_serial_numbers", "module_firmware_versions",
     "module_sensor_materials", "module_sensor_thicknesses",
     "module_sensor_widths"}

\* The active modules and the serial number of the device of every unit.
UnitModules == [u \in Units |-> IF u = "slaveA" THEN 2 ELSE 1]
UnitSerial == [u \in Units |-> CHOOSE k \in 1..Len(Mythens) : Mythens[k] = u]

\* Mythen4(connection) on the device of unit u
NewUnit(u) ==
    LET dev == [NewDevice(UnitModules[u])
                  EXCEPT !.conf["systemnum"] = UnitSerial[u]]
    IN init_extended(Begin(NoMythen(dev), 0, "nack"), 0).m

\* No group call has been made: the commands the last call of the group
\* wrote to every unit (tx), what it returned (result) and whether the
\* group has been constructed (made).
NoGroup ==
    [made |-> FALSE, name |-> "none", value |-> "None",
     tx |-> [u \in Units |-> <<>>], val |-> "None", result |-> <<>>]

InitGroup ==
    /\ unit = [u \in Units |-> NewUnit(u)]
    /\ grp = NoGroup

\* The constructor sets the gate mode of the master as well.
init_mythens_all(master, slaves) == <<master>> \o slaves

\* ChainGroup.__init__ (group.py:49): mythens=slaves
init_mythens(master, slaves) == slaves

\* No attribute is written to the master only.
master_only_never(name) == FALSE

\* ChainGroup.__setattr__ (group.py:69): name in self.MASTER_SET
master_only(name) == name \in MASTER_SET

\* The properties the class ChainGroup defines itself, which are found
\* before __getattr__ is tried: num_channels and flatfieldconf
\* (group.py:96-102).
own_property(name) == name \in {"num_channels", "flatfieldconf"}

\* The attribute the work items of a read get from their unit: the group's
\* num_channels reads num_module_channels (group.py:98).
item_name(name) ==
    IF name = "num_channels" THEN "num_module_channels" ELSE name

\* Every attribute is read from every unit.
fans_out_always(name) == TRUE

\* ChainGroup.__getattr__ (group.py:58-60): name in self.JOIN_GET or
\* name in self.CONCAT_GET
fans_out(name) == name \in JOIN_GET \cup CONCAT_GET

\* The results of the work items in the order in which they completed.
results_as_completed(fs, order) ==
    [k \in 1..Len(fs) |->
       fs[CHOOSE j \in 1..Len(fs) : fs[j].unit = order[k]].res]

\* ChainGroup._map (group.py:83): [future.result() for future in futures]
results(fs, order) == [k \in 1..Len(fs) |-> fs[k].res]

\* ChainGroup.__getattr__ (group.py:58-64) and the properties num_channels
\* and flatfieldconf (group.py:98, 102) on the results of _map; a join
\* attribute of this model is one integer per unit.
combine(name, rs) ==
    CASE name \in JOIN_GET -> [k \in 1..Len(rs) |-> rs[k][1]]
      [] name = "num_channels" -> <<sum(concatenate(rs))>>
      [] OTHER -> concatenate(rs)

\* The attributes written and read through the group, and the values
\* written.
GroupWrites == MASTER_SET \cup {"frames"}
GroupReads ==
    {"system_serial_number", "badchn", "frames", "num_gates", "num_channels",
     "flatfieldconf"}
GroupValues(name) ==
    IF name \in BoolAttrs THEN {"True", "False"} ELSE {"1", "2"}

\* A session changes one setting at a time through the group and puts it
\* back before it changes another, reads an attribute, stops or resets:
\* every setting but name is as the constructor left it, on the master if
\* it is a master-only setting and on every unit otherwise.
GroupAtRest(name) ==
    \A n \in GroupWrites \ {name} :
       IF n \in MASTER_SET THEN SettingAtRest(unit[Master], n)
       ELSE \A u \in Units : SettingAtRest(unit[u], n)

\* A group call begins: nothing has been written to a unit yet.
Began(name, value) ==
    [grp EXCEPT !.name = name, !.value = value,
                !.tx = [u \in Units |-> <<>>],
                !.val = "None", !.result = <<>>]

\* master.gatemode = value, before the group is constructed
MasterGate ==
    /\ ~grp.made
    /\ cg.pc = "idle"
    /\ \E value \in {"True", "False"} :
          unit' = [unit EXCEPT ![Master] =
                     setter(Begin(@, 0, "nack"), "gatemode", value).m]
    /\ UNCHANGED <<grp, chVars>>

\* group = ChainGroup(master, *slaves) (group.py:37-49)
GroupInit ==
    /\ ~grp.made
    /\ cg.pc \in {"idle", "raised"}
    /\ PoolIdle
    /\ cg' = [IdleGroup EXCEPT !.pc = "submit", !.op = "init",
                               !.todo = init_mythens(Master, Slaves)]
    /\ grp' = Began("gatemode", "True")
    /\ futs' = <<>>
    /\ log' = <<>>
    /\ UNCHANGED <<unit, wk, cr>>

\* group.<name> = value (group.py:68-72)
GroupSetattr ==
    /\ grp.made
    /\ cg.pc \in {"done", "raised"}
    /\ PoolIdle
    /\ \E name \in GroupWrites : \E value \in GroupValues(name) :
          /\ GroupAtRest(name)
          /\ value # rest(Extended, name) => GroupAtRest("none")
          /\ IF master_only(name)
             THEN \E fo \in FaultsOf(1) :
                    LET s == setter(Begin(unit[Master], fo[1], fo[2]),
                                    name, value)
                    IN /\ unit' = [unit EXCEPT ![Master] = s.m]
                       /\ grp' = [Began(name, value)
                                    EXCEPT !.tx[Master] = s.tx]
                       /\ cg' = [IdleGroup EXCEPT
                                   !.op = "setattr",
                                   !.pc = IF s.exc = "none" THEN "done"
                                          ELSE "raised"]
             ELSE /\ cg' = [IdleGroup EXCEPT !.pc = "submit",
                                             !.op = "setattr",
                                             !.todo = Mythens]
                  /\ grp' = Began(name, value)
                  /\ UNCHANGED unit
    /\ futs' = <<>>
    /\ log' = <<>>
    /\ UNCHANGED <<wk, cr>>

\* group.<name>: a property of the class (group.py:96-102) or __getattr__
\* (group.py:57-66)
GroupGetattr ==
    /\ grp.made
    /\ cg.pc \in {"done", "raised"}
    /\ PoolIdle
    /\ GroupAtRest("none")
    /\ \E name \in GroupReads :
          IF own_property(name) \/ fans_out(name)
          THEN /\ cg' = [IdleGroup EXCEPT !.pc = "submit", !.op = "getattr",
                                          !.todo = Mythens]
               /\ grp' = Began(name, "None")
               /\ UNCHANGED unit
          ELSE \E fo \in FaultsOf(1) :
                 LET s == getter(Begin(unit[Master], fo[1], fo[2]), name)
                 IN /\ unit' = [unit EXCEPT ![Master] = s.m]
                    /\ grp' = [Began(name, "None")
                                 EXCEPT !.tx[Master] = s.tx,
                                        !.val = IF cached(name) # "none"
                                                THEN s.val ELSE fmt_d(s.num)]
                    /\ cg' = [IdleGroup EXCEPT
                                !.op = "getattr",
                                !.pc = IF s.exc = "none" THEN "done"
                                       ELSE "raised"]
    /\ futs' = <<>>
    /\ log' = <<>>
    /\ UNCHANGED <<wk, cr>>

\* group.stop() and group.reset() (group.py:90-94)
GroupStop ==
    /\ grp.made
    /\ cg.pc \in {"done", "raised"}
    /\ PoolIdle
    /\ GroupAtRest("none")
    /\ \E op \in {"stop", "reset"} :
          /\ cg' = [IdleGroup EXCEPT !.pc = "submit", !.op = op,
                                     !.todo = Mythens]
          /\ grp' = Began("none", "None")
    /\ futs' = <<>>
    /\ log' = <<>>
    /\ UNCHANGED <<unit, wk, cr>>

\* What a work item of the group does on its unit.
apply(s, fn, name, value) ==
    CASE fn = "setattr" -> setter(s, name, value)
      [] fn = "getattr" -> getter(s, name)
      [] fn = "stop" -> stop(s)
      [] fn = "reset" -> reset(s)

\* The worker runs its work item: setattr, getattr, Mythen.stop or
\* Mythen.reset on the unit; the future holds what the call returned or
\* that it raised.
WorkerApply(w) ==
    /\ wk[w] # 0
    /\ futs[wk[w]].fn \in {"setattr", "getattr", "stop", "reset"}
    /\ \E fo \in FaultsOf(1) :
          LET u == futs[wk[w]].unit
              s == apply(Begin(unit[u], fo[1], fo[2]), futs[wk[w]].fn,
                         item_name(grp.name), grp.value)
          IN /\ unit' = [unit EXCEPT ![u] = s.m]
             /\ grp' = [grp EXCEPT !.tx[u] = @ \o s.tx]
             /\ futs' = [futs EXCEPT
                           ![wk[w]].st = IF s.exc = "none" THEN "ok" ELSE "err",
                           ![wk[w]].res = s.arr]
    /\ log' = Append(log, futs[wk[w]].unit)
    /\ wk' = [wk EXCEPT ![w] = 0]
    /\ UNCHANGED <<cg, cr>>

\* ChainGroup._map (group.py:83) for __init__, __setattr__, __getattr__,
\* stop and reset: the result of every future in the order of submission;
\* the exception of the first failed one is raised to the caller.
MapCollect ==
    /\ cg.pc = "wait"
    /\ cg.op \in {"init", "setattr", "getattr", "stop", "reset"}
    /\ future_done(futs[cg.k].st)
    /\ cg' = [cg EXCEPT !.pc = IF futs[cg.k].st = "err" THEN "raised"
                               ELSE IF cg.k = Len(futs) THEN "done"
                               ELSE "wait",
                        !.k = @ + 1]
    /\ grp' = IF futs[cg.k].st = "err" \/ cg.k < Len(futs) THEN grp
              ELSE [grp EXCEPT
                      !.made = TRUE,
                      !.result = IF cg.op = "getattr"
                                 THEN combine(grp.name, results(futs, log))
                                 ELSE <<>>]
    /\ UNCHANGED <<unit, futs, wk, log, cr>>

----------------------------------------------------------------------------
\* Concurrent callers of one Connection.
Init ==
    /\ InitConn /\ InitReadout /\ InitChain /\ InitSim
    /\ InitGroup /\ InitModel /\ InitHandler

Next ==
    \/ \E t \in Threads : Call(t) /\ UNCHANGED <<roVars, chVars, simVars, grVars, dmVars, hdVars>>
    \/ \E t \in Threads : Acquire(t) /\ UNCHANGED <<roVars, chVars, simVars, grVars, dmVars, hdVars>>
    \/ \E t \in Threads : Send(t) /\ UNCHANGED <<roVars, chVars, simVars, grVars, dmVars, hdVars>>
    \/ \E t \in Threads : Read(t) /\ UNCHANGED <<roVars, chVars, simVars, grVars, dmVars, hdVars>>
    \/ \E t \in Threads : RecvInto(t) /\ UNCHANGED <<roVars, chVars, simVars, grVars, dmVars, hdVars>>
    \/ \E t \in Threads : Return(t) /\ UNCHANGED <<roVars, chVars, simVars, grVars, dmVars, hdVars>>
    \/ PeerClose /\ UNCHANGED <<roVars, chVars, simVars, grVars, dmVars, hdVars>>

Spec == Init /\ [][Next]_vars

\* Two threads that send commands and read frames on one Connection, with
\* the timeout of the connection.
Request(t) ==
    \E op \in {"write_read", "read_exactly_into"}, n \in 1..MaxLen :
       Invoke(t, op, n, n, "DEFAULT")

NextLock ==
    \/ \E t \in Threads : Request(t) /\ UNCHANGED <<roVars, chVars, simVars, grVars, dmVars, hdVars>>
    \/ \E t \in Threads : Acquire(t) /\ UNCHANGED <<roVars, chVars, simVars, grVars, dmVars, hdVars>>
    \/ \E t \in Threads : Send(t) /\ UNCHANGED <<roVars, chVars, simVars, grVars, dmVars, hdVars>>
    \/ \E t \in Threads : Read(t) /\ UNCHANGED <<roVars, chVars, simVars, grVars, dmVars, hdVars>>
    \/ \E t \in Threads : RecvInto(t) /\ UNCHANGED <<roVars, chVars, simVars, grVars, dmVars, hdVars>>
    \/ \E t \in Threads : Return(t) /\ UNCHANGED <<roVars, chVars, simVars, grVars, dmVars, hdVars>>
    \/ PeerClose /\ UNCHANGED <<roVars, chVars, simVars, grVars, dmVars, hdVars>>

\* What thread t does while it holds the lock: its I/O returns or times
\* out, and the wrapper is left.
Holder(t) ==
    (Send(t) \/ Read(t) \/ RecvInto(t) \/ Return(t))
      /\ UNCHANGED <<roVars, chVars, simVars, grVars, dmVars, hdVars>>

\* The I/O of the holder of the lock ends, and a thread blocked in
\* lock.acquire() that finds the lock free again and again gets it.
SpecLock ==
    /\ Init
    /\ [][NextLock]_vars
    /\ \A t \in Threads :
          /\ WF_vars(Holder(t))
          /\ SF_vars(Acquire(t)
                       /\ UNCHANGED <<roVars, chVars, simVars, grVars, dmVars, hdVars>>)

\* One streaming readout after the other on one device.
NextReadout ==
    \/ ReadoutNew /\ UNCHANGED <<chVars, simVars, grVars, dmVars, hdVars>>
    \/ ReadoutWrite /\ UNCHANGED <<chVars, simVars, grVars, dmVars, hdVars>>
    \/ ReadoutWritten /\ UNCHANGED <<chVars, simVars, grVars, dmVars, hdVars>>
    \/ ReadoutRead /\ UNCHANGED <<chVars, simVars, grVars, dmVars, hdVars>>
    \/ ReadoutYield /\ UNCHANGED <<chVars, simVars, grVars, dmVars, hdVars>>
    \/ ReadoutEnd /\ UNCHANGED <<chVars, simVars, grVars, dmVars, hdVars>>
    \/ Acquire(ReadoutThread) /\ UNCHANGED <<roVars, chVars, simVars, grVars, dmVars, hdVars>>
    \/ Send(ReadoutThread) /\ UNCHANGED <<roVars, chVars, simVars, grVars, dmVars, hdVars>>
    \/ RecvInto(ReadoutThread) /\ UNCHANGED <<roVars, chVars, simVars, grVars, dmVars, hdVars>>
    \/ PeerClose /\ UNCHANGED <<roVars, chVars, simVars, grVars, dmVars, hdVars>>

SpecReadout == Init /\ [][NextReadout]_vars

\* The operations of one ChainGroup, one after the other.
NextChain ==
    \/ GroupStart /\ UNCHANGED <<connVars, roVars, simVars, grVars, dmVars, hdVars>>
    \/ MapSubmit /\ UNCHANGED <<connVars, roVars, simVars, grVars, dmVars, hdVars>>
    \/ \E w \in Workers : WorkerTake(w) /\ UNCHANGED <<connVars, roVars, simVars, grVars, dmVars, hdVars>>
    \/ \E w \in Workers : WorkerRun(w) /\ UNCHANGED <<connVars, roVars, simVars, grVars, dmVars, hdVars>>
    \/ MapResult /\ UNCHANGED <<connVars, roVars, simVars, grVars, dmVars, hdVars>>
    \/ StartMaster /\ UNCHANGED <<connVars, roVars, simVars, grVars, dmVars, hdVars>>
    \/ GroupReadout /\ UNCHANGED <<connVars, roVars, simVars, grVars, dmVars, hdVars>>
    \/ ReadoutWait /\ UNCHANGED <<connVars, roVars, simVars, grVars, dmVars, hdVars>>
    \/ FrameBegin /\ UNCHANGED <<connVars, roVars, simVars, grVars, dmVars, hdVars>>
    \/ \E u \in Units : UnitData(u) /\ UNCHANGED <<connVars, roVars, simVars, grVars, dmVars, hdVars>>
    \/ Select /\ UNCHANGED <<connVars, roVars, simVars, grVars, dmVars, hdVars>>
    \/ ReadSlice /\ UNCHANGED <<connVars, roVars, simVars, grVars, dmVars, hdVars>>
    \/ ReadyDone /\ UNCHANGED <<connVars, roVars, simVars, grVars, dmVars, hdVars>>
    \/ FrameYield /\ UNCHANGED <<connVars, roVars, simVars, grVars, dmVars, hdVars>>

SpecChain == Init /\ [][NextChain]_vars

\* One ChainGroup: its construction and the attributes written and read
\* through it, one call after the other.
NextGroup ==
    \/ MasterGate /\ UNCHANGED <<connVars, roVars, simVars, dmVars, hdVars>>
    \/ GroupInit /\ UNCHANGED <<connVars, roVars, simVars, dmVars, hdVars>>
    \/ GroupSetattr /\ UNCHANGED <<connVars, roVars, simVars, dmVars, hdVars>>
    \/ GroupGetattr /\ UNCHANGED <<connVars, roVars, simVars, dmVars, hdVars>>
    \/ GroupStop /\ UNCHANGED <<connVars, roVars, simVars, dmVars, hdVars>>
    \/ MapSubmit /\ UNCHANGED <<connVars, roVars, simVars, grVars, dmVars, hdVars>>
    \/ \E w \in Workers : WorkerTake(w) /\ UNCHANGED <<connVars, roVars, simVars, grVars, dmVars, hdVars>>
    \/ \E w \in Workers : WorkerApply(w) /\ UNCHANGED <<connVars, roVars, simVars, dmVars, hdVars>>
    \/ MapCollect /\ UNCHANGED <<connVars, roVars, simVars, dmVars, hdVars>>

SpecGroup == Init /\ [][NextGroup]_vars

\* One simulated device, its client and its input signal.
EngineStep ==
    \/ TaskBegin
    \/ HighSeen
    \/ LowSeen
    \/ DelayBeforeDone
    \/ ExposureDone
    \/ DelayAfterDone

NextSim ==
    \/ SetConfig /\ UNCHANGED <<connVars, roVars, chVars, grVars, dmVars, hdVars>>
    \/ StartCmd /\ UNCHANGED <<connVars, roVars, chVars, grVars, dmVars, hdVars>>
    \/ StopCmd /\ UNCHANGED <<connVars, roVars, chVars, grVars, dmVars, hdVars>>
    \/ StatusQuery /\ UNCHANGED <<connVars, roVars, chVars, grVars, dmVars, hdVars>>
    \/ ReadoutCmd /\ UNCHANGED <<connVars, roVars, chVars, grVars, dmVars, hdVars>>
    \/ ServeFrame /\ UNCHANGED <<connVars, roVars, chVars, grVars, dmVars, hdVars>>
    \/ ClientFrame /\ UNCHANGED <<connVars, roVars, chVars, grVars, dmVars, hdVars>>
    \/ InputHigh /\ UNCHANGED <<connVars, roVars, chVars, grVars, dmVars, hdVars>>
    \/ InputLow /\ UNCHANGED <<connVars, roVars, chVars, grVars, dmVars, hdVars>>
    \/ TaskBegin /\ UNCHANGED <<connVars, roVars, chVars, grVars, dmVars, hdVars>>
    \/ HighSeen /\ UNCHANGED <<connVars, roVars, chVars, grVars, dmVars, hdVars>>
    \/ LowSeen /\ UNCHANGED <<connVars, roVars, chVars, grVars, dmVars, hdVars>>
    \/ DelayBeforeDone /\ UNCHANGED <<connVars, roVars, chVars, grVars, dmVars, hdVars>>
    \/ ExposureDone /\ UNCHANGED <<connVars, roVars, chVars, grVars, dmVars, hdVars>>
    \/ DelayAfterDone /\ UNCHANGED <<connVars, roVars, chVars, grVars, dmVars, hdVars>>

SpecSim == Init /\ [][NextSim]_vars

\* The hub runs a greenlet that can run, and a sleep ends.
SpecSimLive ==
    SpecSim /\ WF_vars(EngineStep /\ UNCHANGED <<connVars, roVars, chVars, grVars, dmVars, hdVars>>)

\* The settings of one device model, written and read one after the other;
\* the model is made with the default number of modules of its class.
NextModel ==
    \/ Construct(Legacy, 1) /\ UNCHANGED <<connVars, roVars, chVars, simVars, grVars, hdVars>>
    \/ Construct(Extended, 0) /\ UNCHANGED <<connVars, roVars, chVars, simVars, grVars, hdVars>>
    \/ Discard /\ UNCHANGED <<connVars, roVars, chVars, simVars, grVars, hdVars>>
    \/ SetAttr /\ UNCHANGED <<connVars, roVars, chVars, simVars, grVars, hdVars>>
    \/ GetAttr /\ UNCHANGED <<connVars, roVars, chVars, simVars, grVars, hdVars>>
    \/ AutoSettings /\ UNCHANGED <<connVars, roVars, chVars, simVars, grVars, hdVars>>

SpecModel == Init /\ [][NextModel]_vars

\* The active modules of one device of the extended generation.
NextModules ==
    \/ \E nmod \in 0..MaxModules :
          Construct(Extended, nmod)
            /\ UNCHANGED <<connVars, roVars, chVars, simVars, grVars, hdVars>>
    \/ Discard /\ UNCHANGED <<connVars, roVars, chVars, simVars, grVars, hdVars>>
    \/ SetActiveModules /\ UNCHANGED <<connVars, roVars, chVars, simVars, grVars, hdVars>>

SpecModules == Init /\ [][NextModules]_vars

\* Device models of both generations, their active modules and reset().
NextReset ==
    \/ \E nmod \in 1..MaxModules :
          Construct(Legacy, nmod)
            /\ UNCHANGED <<connVars, roVars, chVars, simVars, grVars, hdVars>>
    \/ Construct(Extended, 0) /\ UNCHANGED <<connVars, roVars, chVars, simVars, grVars, hdVars>>
    \/ Discard /\ UNCHANGED <<connVars, roVars, chVars, simVars, grVars, hdVars>>
    \/ SetActiveModules /\ UNCHANGED <<connVars, roVars, chVars, simVars, grVars, hdVars>>
    \/ SetActiveModulesLegacy /\ UNCHANGED <<connVars, roVars, chVars, simVars, grVars, hdVars>>
    \/ Reset /\ UNCHANGED <<connVars, roVars, chVars, simVars, grVars, hdVars>>

SpecReset == Init /\ [][NextReset]_vars

\* The cached settings of one device model: written, and reset.
NextCache ==
    \/ Construct(Legacy, 1) /\ UNCHANGED <<connVars, roVars, chVars, simVars, grVars, hdVars>>
    \/ Construct(Extended, 0) /\ UNCHANGED <<connVars, roVars, chVars, simVars, grVars, hdVars>>
    \/ Discard /\ UNCHANGED <<connVars, roVars, chVars, simVars, grVars, hdVars>>
    \/ SetAttr /\ UNCHANGED <<connVars, roVars, chVars, simVars, grVars, hdVars>>
    \/ SetFrames /\ UNCHANGED <<connVars, roVars, chVars, simVars, grVars, hdVars>>
    \/ Reset /\ UNCHANGED <<connVars, roVars, chVars, simVars, grVars, hdVars>>

SpecCache == Init /\ [][NextCache]_vars

\* One simulated device and every message it is sent, a start while an
\* acquisition is running included.
NextHandler ==
    \/ SetConfig /\ Counted("set") /\ UNCHANGED <<orphans, connVars, roVars, chVars, grVars, dmVars>>
    \/ SetCounter /\ UNCHANGED <<connVars, roVars, chVars, grVars, dmVars>>
    \/ StartCmd /\ Counted("start") /\ UNCHANGED <<orphans, connVars, roVars, chVars, grVars, dmVars>>
    \/ Restart /\ Counted("start") /\ UNCHANGED <<connVars, roVars, chVars, grVars, dmVars>>
    \/ StopCmd /\ Counted("stop") /\ UNCHANGED <<orphans, connVars, roVars, chVars, grVars, dmVars>>
    \/ StatusQuery /\ Counted("get") /\ UNCHANGED <<orphans, connVars, roVars, chVars, grVars, dmVars>>
    \/ ReadoutCmd /\ Counted("readout") /\ UNCHANGED <<orphans, connVars, roVars, chVars, grVars, dmVars>>
    \/ ServeFrame /\ UNCHANGED <<connVars, roVars, chVars, grVars, dmVars, hdVars>>
    \/ ClientFrame /\ UNCHANGED <<connVars, roVars, chVars, grVars, dmVars, hdVars>>
    \/ InputHigh /\ UNCHANGED <<connVars, roVars, chVars, grVars, dmVars, hdVars>>
    \/ InputLow /\ UNCHANGED <<connVars, roVars, chVars, grVars, dmVars, hdVars>>
    \/ TaskBegin /\ UNCHANGED <<connVars, roVars, chVars, grVars, dmVars, hdVars>>
    \/ HighSeen /\ UNCHANGED <<connVars, roVars, chVars, grVars, dmVars, hdVars>>
    \/ LowSeen /\ UNCHANGED <<connVars, roVars, chVars, grVars, dmVars, hdVars>>
    \/ DelayBeforeDone /\ UNCHANGED <<connVars, roVars, chVars, grVars, dmVars, hdVars>>
    \/ ExposureDone /\ UNCHANGED <<connVars, roVars, chVars, grVars, dmVars, hdVars>>
    \/ DelayAfterDone /\ UNCHANGED <<connVars, roVars, chVars, grVars, dmVars, hdVars>>
    \/ OrphanStep /\ UNCHANGED <<connVars, roVars, chVars, grVars, dmVars>>

SpecHandler == Init /\ [][NextHandler]_vars

\* command() on every reply.
NextCommand ==
    Command /\ UNCHANGED <<connVars, roVars, chVars, simVars, grVars, hdVars>>

SpecCommand == Init /\ [][NextCommand]_vars

----------------------------------------------------------------------------
\* Properties of the Connection wrapper.

\* The call of thread t began on a stream socket that was already open.
OnOpenStream(t) == kind = TCP /\ ~th[t].just /\ th[t].attempt >= 1

\* C1: on a stream connection that was open when the call began, f is
\* executed at most twice and connect is called at most once per call; a
\* second execution happens only after the first one failed with an I/O
\* error other than a timeout; after such a failure connect is called once
\* and, when it succeeds, f is executed exactly once more; whatever the
\* second execution ends with is what the caller gets.
C1_RetryOnce ==
    \A t \in Threads :
      LET r == th[t] IN
      OnOpenStream(t) =>
        /\ r.attempt <= 2
        /\ r.nconn <= 1
        /\ (r.attempt = 2 => r.first \in {"oserror", "empty"} /\ r.nconn = 1)
        /\ (r.pc = "ret" /\ r.first = "oserror" =>
               r.nconn = 1 /\ (r.attempt = 2 \/ r.res = "connecterror"))
        /\ (r.pc = "ret" /\ r.attempt = 2 => r.res = r.last)

\* C1 witness: the retry after an I/O error failed too and its error is
\* what the caller gets.
C1_Witness ==
    \E t \in Threads :
      /\ OnOpenStream(t)
      /\ th[t].pc = "ret"
      /\ th[t].attempt = 2
      /\ th[t].first = "oserror"
      /\ th[t].res = "oserror"

\* C2: at most one thread is inside the wrapper at any time and it holds the
\* lock, so nothing happens on the socket between the write and the read of
\* a write_read or write_read_exactly_into; a call that wrote its command
\* on a socket with no reply outstanding receives only bytes that answer its
\* own command.
C2_MutualExclusion ==
    /\ \A t1, t2 \in Threads :
          t1 # t2 => ~(th[t1].pc \in {"body", "ret"} /\ th[t2].pc \in {"body", "ret"})
    /\ \A t \in Threads : th[t].pc \in {"body", "ret"} => lock = t
    /\ \A t \in Threads :
          (/\ th[t].pc = "ret"
           /\ th[t].res = "ok"
           /\ th[t].op \in {"write_read", "write_read_exactly_into"}
           /\ th[t].clean) => ~th[t].foreign

\* C2 witness: a write_read got its reply while the other thread was waiting
\* for the lock with a write_read of its own.
C2_Witness ==
    \E t1, t2 \in Threads :
      /\ t1 # t2
      /\ th[t1].pc = "ret"
      /\ th[t1].op = "write_read"
      /\ th[t1].res = "ok"
      /\ th[t1].clean
      /\ th[t2].pc = "lock"
      /\ th[t2].op = "write_read"

C8_TimeoutDisconnects ==
    \A t \in Threads :
      (OnOpenStream(t) /\ th[t].pc = "ret" /\ th[t].res = "timeout") =>
        socket = "None" /\ th[t].attempt = 1

\* C9: on a datagram connection, or when the call itself opened the socket,
\* f is executed exactly once and connect is never called to recover; a
\* timeout or I/O error of that execution closes the socket and is what the
\* caller gets.
C9_SingleAttempt ==
    \A t \in Threads :
      LET r == th[t] IN
      (r.attempt >= 1 /\ (kind = UDP \/ r.just)) =>
        /\ r.attempt = 1
        /\ r.nconn = (IF r.just THEN 1 ELSE 0)
        /\ (r.pc = "ret" => r.res = r.last)
        /\ (r.pc = "ret" /\ r.res \in {"timeout", "oserror"} => socket = "None")

\* C9 witness: an I/O error on a datagram socket that was already open.
C9_Witness ==
    \E t \in Threads :
      /\ kind = UDP
      /\ ~th[t].just
      /\ th[t].pc = "ret"
      /\ th[t].res = "oserror"
      /\ socket = "None"

\* C11: when a call made with a per-call timeout override is over, returned
\* or raised, and the connection still has a socket, the timeout in force on
\* it is the one that was in force before the call; between calls a socket
\* never carries a per-call override.
C11_TimeoutRestored ==
    /\ \A t \in Threads :
          (th[t].pc = "ret" /\ th[t].tmo # "DEFAULT" /\ socket = "open") =>
             stimeout = th[t].before
    /\ ((\A t \in Threads : th[t].pc \in {"idle", "lock"}) /\ socket = "open") =>
          stimeout = ConnTimeout

\* C11 witness: a call with an override raised the timeout of its retry and
\* left the socket connected, with the connection-level timeout back.
C11_Witness ==
    \E t \in Threads :
      /\ th[t].pc = "ret"
      /\ th[t].tmo = "call"
      /\ th[t].res = "timeout"
      /\ socket = "open"
      /\ stimeout = ConnTimeout

\* C10: when the first execution of f on an open stream socket returns an
\* empty result, the caller gets the connection-closed error, and no call
\* on an open stream socket returns an empty result.
C10_EmptyIsRaised ==
    \A t \in Threads :
      (OnOpenStream(t) /\ th[t].pc = "ret") =>
        /\ (th[t].first = "empty" => th[t].res = "closed")
        /\ th[t].res # "empty"

----------------------------------------------------------------------------
\* Properties of the streaming readout.

\* C4: a readout of n frames calls write once, before the first read, and
\* read_exactly_into once per frame, each for exactly one frame length; the
\* frames are yielded in the order 0, 1, ..., each filled to exactly one
\* frame length, never more than n of them and never after more than n reads.
C4_OneReadPerFrame ==
    /\ ro.writes <= 1
    /\ (ro.pc \in {"writing", "loop", "reading", "done"} => ro.writes = 1)
    /\ (ro.pc \in {"created", "writing"} => ro.reads = 0)
    /\ Len(ro.out) <= ro.n
    /\ ro.reads <= ro.n
    /\ ro.reads >= Len(ro.out)
    /\ ro.reads <= Len(ro.out) + 1
    /\ (ro.pc \in {"loop", "done"} => ro.reads = Len(ro.out))
    /\ (ro.pc = "done" => Len(ro.out) = ro.n)
    /\ \A k \in 1..Len(ro.out) : ro.out[k] = k - 1 /\ ro.filled[k] = ro.fb
    /\ (ro.pc = "reading" /\ th[ReadoutThread].pc # "idle" =>
          /\ th[ReadoutThread].op = "read_exactly_into"
          /\ th[ReadoutThread].n = ro.fb)

\* C4 witness: a readout of several frames, each longer than one byte, ran
\* to its end.
C4_Witness ==
    /\ ro.pc = "done"
    /\ ro.n >= 2
    /\ ro.fb >= 2
    /\ Len(ro.out) = ro.n

\* C12: a frame read whose execution failed ends the call there, with that
\* failure as what the generator raises: the read is not executed a second
\* time on a new connection, and no frame is yielded from a retried read.
C12_NoSilentRetry ==
    LET r == th[ReadoutThread] IN
    /\ (ro.pc = "reading" /\ r.first \notin {"none", "ok"} =>
          r.pc = "ret" /\ r.attempt = 1 /\ r.res = r.first)
    /\ \A k \in 1..Len(ro.retried) : ~ro.retried[k]

\* C13: against the simulator in internal mode configured for n frames, the
\* first readout of n frames after the start yields the frames with the
\* indexes 0, 1, ... in this order, frame i filled with the value i, never
\* more than n, and exactly n when the readout is over.
C13_ReadoutOrder ==
    (/\ acq.klass = Internal
     /\ ~acq.killed
     /\ rd.pc # "idle"
     /\ rd.n = acq.nb_frames
     /\ acq.taken = Len(rd.sent)) =>
       /\ Len(rd.got) <= rd.n
       /\ \A k \in 1..Len(rd.got) : rd.got[k].i = k - 1 /\ rd.got[k].fill = k - 1
       /\ (rd.pc = "done" => Len(rd.sent) = rd.n)

\* C13 witness: a readout of two frames is over and the client has both.
C13_Witness ==
    /\ acq.klass = Internal
    /\ ~acq.killed
    /\ rd.pc = "done"
    /\ rd.n = 2
    /\ acq.nb_frames = 2
    /\ Len(rd.got) = 2
    /\ acq.taken = 2

----------------------------------------------------------------------------
\* Properties of the acquisition engine of the simulator.

\* The entries of q that are frames.
Frames(q) == {k \in 1..Len(q) : q[k].kind = "frame"}

\* C14: after a stop that cancelled a running acquisition before all its
\* frames were produced, one terminal frame and then the end marker have
\* been appended to the output queue, and nothing after the end marker.
C14_TerminalFrame ==
    (acq.killed /\ acq.atStop < acq.nb_frames) =>
       /\ Len(acq.put) = acq.atStop + 2
       /\ acq.put[Len(acq.put)] = EndMarker
       /\ acq.put[Len(acq.put) - 1].kind = "frame"

\* C15: once a stop sent while the acquisition was running has been
\* answered with OK, the engine is dead and finished, a status query
\* reports not running (the client shows ON), and the acquisition has
\* produced no frame beyond those it had produced when the stop arrived.
C15_StopTerminates ==
    acq.killed =>
       /\ acq.pc = "dead"
       /\ acq.finished = "True"
       /\ status(acq).running = 0
       /\ (reply.cmd = "status" => client_status(reply.status) = "ON")
       /\ acq.frame_nb + 1 = acq.atStop
       /\ \A k \in Frames(acq.put) : acq.put[k].fill < acq.atStop

\* C15 witness: a gated acquisition was stopped while its gate was open,
\* after its first frame, and the status has been asked for since.
C15_Witness ==
    /\ acq.killed
    /\ acq.klass = Gate
    /\ acq.exposing
    /\ acq.atStop = 1
    /\ reply.cmd = "status"
    /\ reply.status.running = 0

\* C16: the acquisition class follows from the three flags read at the
\* start: gate enable gives the gated one, else continuous trigger the
\* continuously triggered one, else trigger the singly triggered one, else
\* the internal one.
C16_ModeChoice ==
    acq.pc # "none" =>
       acq.klass = (CASE acq.flags.gateen = 1 -> Gate
                      [] acq.flags.gateen = 0 /\ acq.flags.conttrigen = 1 ->
                           ContinuousTrigger
                      [] acq.flags.gateen = 0 /\ acq.flags.conttrigen = 0
                           /\ acq.flags.trigen = 1 -> SingleTrigger
                      [] OTHER -> Internal)

\* C16 witness: with both trigger flags set and the gate flag clear the
\* acquisition is the continuously triggered one.
C16_Witness ==
    /\ acq.pc # "none"
    /\ acq.flags = [gateen |-> 0, trigen |-> 1, conttrigen |-> 1]
    /\ acq.klass = ContinuousTrigger

\* C17: a singly triggered acquisition exposes and produces nothing and
\* applies no delay before the input went high after the start; it waits
\* for the input once and applies the delay once, before the first frame.
C17_SingleTrigger ==
    acq.klass = SingleTrigger =>
       /\ (acq.highs = 0 =>
              /\ acq.exposed = 0
              /\ acq.predelays = 0
              /\ ~acq.exposing
              /\ Frames(acq.put) = {})
       /\ acq.waits <= 1
       /\ acq.predelays <= 1
       /\ (acq.exposed > 0 => acq.predelays = 1 /\ acq.waits = 1)
       /\ (acq.pc = "wait_high" => acq.exposed = 0)
       /\ (acq.pc = "dead" /\ ~acq.killed =>
              Cardinality(Frames(acq.put)) = acq.nb_frames)

\* C17 witness: two frames were produced after a single high edge.
C17_Witness ==
    /\ acq.klass = SingleTrigger
    /\ acq.pc = "dead"
    /\ ~acq.killed
    /\ acq.nb_frames = 2
    /\ acq.highs = 1
    /\ Len(acq.put) = 2

\* C18: in a continuously triggered acquisition the exposures begun never
\* outnumber the high edges of the input received since the start.
C18_EdgePerFrame ==
    acq.klass = ContinuousTrigger => acq.exposed <= acq.highs

RECURSIVE SumOf(_, _)
\* The sum of the durations ps[idx[1]], ps[idx[2]], ...
SumOf(ps, idx) ==
    IF idx = <<>> THEN 0 ELSE ps[Head(idx)] + SumOf(ps, Tail(idx))

\* C19: in a gated acquisition with gate count g every frame produced was
\* exposed over exactly g complete high periods of the input, each counted
\* once and in the order of their arrival, its exposure time is the sum of
\* their durations, and the frames produced never took more than the
\* complete high periods delivered since the start.
C19_GateCycles ==
    acq.klass = Gate =>
       /\ \A k \in Frames(acq.put) :
             LET f == acq.put[k] IN
             /\ Len(f.used) = acq.nb_gates
             /\ \A j \in 1..Len(f.used) : f.used[j] \in 1..Len(acq.pulses)
             /\ \A j \in 1..(Len(f.used) - 1) : f.used[j] < f.used[j + 1]
             /\ f.t = SumOf(acq.pulses, f.used)
       /\ \A k1, k2 \in Frames(acq.put) :
             k1 < k2 => acq.put[k1].used[acq.nb_gates] < acq.put[k2].used[1]
       /\ Cardinality(Frames(acq.put)) * acq.nb_gates <= Len(acq.pulses)
       /\ acq.gate_nb <= acq.nb_gates

\* C19 witness: with gate count 2 a frame was produced from a high period
\* of duration 1 followed by one of duration 2.
C19_Witness ==
    /\ acq.klass = Gate
    /\ acq.nb_gates = 2
    /\ Len(acq.put) >= 1
    /\ acq.put[1].kind = "frame"
    /\ acq.put[1].t = 3
    /\ acq.pulses = <<1, 2>>

\* C20: an internal acquisition that is running ends, and one that ended
\* without a stop is finished and has put exactly its n frames in the
\* queue, frame k-1 as the k-th entry, one for each frame step, without
\* ever having waited for the input signal.
C20_InternalTerminates ==
    /\ [](acq.klass = Internal =>
            /\ acq.waits = 0
            /\ (~acq.killed => Len(acq.put) = acq.frame_nb + 1)
            /\ (acq.pc = "dead" /\ ~acq.killed =>
                   /\ acq.finished = "True"
                   /\ Len(acq.put) = acq.nb_frames
                   /\ \A k \in 1..Len(acq.put) :
                         acq.put[k].kind = "frame" /\ acq.put[k].fill = k - 1))
    /\ ((acq.klass = Internal /\ acq.pc \notin {"none", "dead"}) ~>
          (acq.pc = "dead"))

\* C20 witness: an internal acquisition of two frames is finished.
C20_Witness ==
    /\ acq.klass = Internal
    /\ acq.pc = "dead"
    /\ ~acq.killed
    /\ acq.nb_frames = 2
    /\ Len(acq.put) = 2

----------------------------------------------------------------------------
\* Properties of the device models.

\* C27: on a device model that has the setting, writing a value that is not
\* a bool to a boolean-typed setting (badchnintrpl, flatfield, rate,
\* triggermode, continuoustrigger, gatemode, inputhigh, outputhigh) raises
\* MythenError(ERR_MYTHEN_BAD_PARAMETER) before any command is written, and
\* the device and the cached values are as before the call.
C27_BadParameter ==
    [][(/\ call'.op = "set"
        /\ call' # call
        /\ call'.name \in BoolAttrs
        /\ call'.value \notin {"True", "False"}
        /\ ~(my.klass = Extended /\ call'.name \in {"inputhigh", "outputhigh"}))
       => (/\ call'.exc = "MythenError"
           /\ call'.code = ERR_MYTHEN_BAD_PARAMETER
           /\ call'.tx = <<>>
           /\ my' = my)]_vars

\* C27 witness: the int 1 was written to gatemode of a Mythen4 and was
\* refused.
C27_Witness ==
    /\ my.klass = Extended
    /\ call.op = "set"
    /\ call.name = "gatemode"
    /\ call.value = "1"
    /\ call.exc = "MythenError"

\* The operations the claim C28 names.
PolarityAndSettings ==
    \/ call.op \in {"get", "set"}
         /\ call.name \in {"inputhigh", "outputhigh", "settings", "settingsmode"}
    \/ call.op = "autosettings"

C29_ModulesUpdated ==
    (/\ my.klass = Extended
     /\ call.op \in {"__init__", "set_active_modules"}
     /\ call.exc = "none")
    => /\ ~my.modch.none
       /\ \E k \in 1..Len(call.tx) :
             call.tx[k] = [c |-> "get", a |-> "modchannels"]
       /\ my.nchannels = sum(my.modch.v)
       /\ my.nmods = my.dev.conf["nmodules"]
       /\ my.buff = 4 * my.nchannels

\* C29 witness: set_active_modules returned without writing "-nmodules",
\* the device having that many modules already, on a device with fewer
\* modules than it can have.
C29_Witness ==
    /\ my.klass = Extended
    /\ call.op = "set_active_modules"
    /\ call.exc = "none"
    /\ \A k \in 1..Len(call.tx) : call.tx[k].c = "get"
    /\ my.nmods = 1
    /\ my.nchannels = ModChannels[1]

\* The negative number whose two's complement the four bytes d are.
Negative(d) ==
    0 - 1 - ((255 - d[1]) + 256 * (255 - d[2]) + 65536 * (255 - d[3])
               + 16777216 * (255 - d[4]))

\* C30: command() raises MythenError with the code n when the reply is
\* the four bytes of a negative n, signed and little endian; it returns
\* every other reply as it is; and it raises
\* MythenError(ERR_MYTHEN_COMM_TIMEOUT) when the exchange times out.
C30_Command ==
    call.op = "command" =>
      LET d == call.rsp.data IN
      CASE call.rsp.exc = "socket.timeout" ->
             call.exc = "MythenError" /\ call.code = ERR_MYTHEN_COMM_TIMEOUT
        [] call.rsp.exc = "none" /\ Len(d) = 4 /\ d[4] >= 128 ->
             call.exc = "MythenError" /\ call.code = Negative(d)
        [] call.rsp.exc = "none" /\ ~(Len(d) = 4 /\ d[4] >= 128) ->
             call.exc = "none" /\ call.ret = d
        [] OTHER -> call.exc = call.rsp.exc

\* C30 witness: the reply was the four bytes of -1 and the error raised
\* has the code -1.
C30_Witness ==
    /\ call.op = "command"
    /\ call.rsp = Returned(<<255, 255, 255, 255>>)
    /\ call.exc = "MythenError"
    /\ call.code = 0 - 1

----------------------------------------------------------------------------
\* Properties of the ChainGroup.

\* mythen.gatemode as the unit u answers it
gatemode(u) == getter(Begin(unit[u], 0, "nack"), "gatemode").val

\* C21: once the group is constructed, and whatever attributes are written
\* through it afterwards, the gatemode of every slave is True; and no step
\* of the construction writes a command to the master or changes the
\* master.
C21_SlavesGated ==
    /\ [](grp.made => \A k \in 1..Len(Slaves) : gatemode(Slaves[k]) = "True")
    /\ [][cg'.op = "init" =>
            unit'[Master] = unit[Master] /\ grp'.tx[Master] = <<>>]_vars

\* C21 witness: the group has just been constructed on a master in gate
\* mode: the master still is in gate mode and both slaves are.
C21_Witness ==
    /\ grp.made
    /\ cg.op = "init"
    /\ cg.pc = "done"
    /\ gatemode(Master) = "True"
    /\ \A k \in 1..Len(Slaves) :
          gatemode(Slaves[k]) = "True" /\ Len(grp.tx[Slaves[k]]) = 1

\* C22: a write of a master-only setting through the group sends its one
\* command to the master, sends no command to a slave and leaves every
\* slave as it was.
C22_MasterOnly ==
    [][cg'.op = "setattr" /\ grp'.name \in MASTER_SET =>
         /\ grp'.tx[Master] = <<[c |-> keyword(grp'.name),
                                 a |-> fmt_d(int(grp'.value))]>>
         /\ \A k \in 1..Len(Slaves) :
               /\ grp'.tx[Slaves[k]] = <<>>
               /\ unit'[Slaves[k]] = unit[Slaves[k]]]_vars

\* C22 witness: the trigger delay has been written through the group: the
\* device of the master has it, the devices of the slaves have not.
C22_Witness ==
    /\ cg.op = "setattr"
    /\ cg.pc = "done"
    /\ grp.name = "delay_trigger"
    /\ grp.value = "2"
    /\ unit[Master].dev.conf["delbef"] = 2
    /\ \A k \in 1..Len(Slaves) :
          unit[Slaves[k]].dev.conf["delbef"] = 0 /\ grp.tx[Slaves[k]] = <<>>

\* The one command that writes the value of the current group call.
WriteCommand == <<[c |-> keyword(grp.name), a |-> fmt_d(int(grp.value))]>>

\* A write of an attribute outside the master-only set sends every unit it
\* has reached the command with the value written, and when it returns it
\* has reached every unit and every unit answers the attribute with that
\* value.
BroadcastIdentical ==
    cg.op = "setattr" /\ grp.name \notin MASTER_SET =>
      \A u \in Units :
         /\ grp.tx[u] \in {<<>>, WriteCommand}
         /\ cg.pc = "done" =>
               /\ grp.tx[u] = WriteCommand
               /\ getter(Begin(unit[u], 0, "nack"), grp.name).val = grp.value

Held(u, name) ==
    IF name = "system_serial_number" THEN <<unit[u].dev.conf["systemnum"]>>
    ELSE [j \in 1..sum(SubSeq(ModChannels, 1, unit[u].dev.conf["nmodules"]))
            |-> 10 * unit[u].dev.conf["systemnum"] + j]

\* C24: a read of a join or concatenate attribute that returns has sent its
\* query to every unit, and its result is what the master holds, followed
\* by what the first slave holds, followed by what the second slave holds,
\* in whatever order the queries completed.
C24_ChainOrder ==
    (/\ cg.op = "getattr"
     /\ cg.pc = "done"
     /\ grp.name \in JOIN_GET \cup CONCAT_GET) =>
       /\ \A u \in Units : Len(grp.tx[u]) = 1 /\ grp.tx[u][1].c = "get"
       /\ grp.result = Held(Master, grp.name) \o Held(Slaves[1], grp.name)
                          \o Held(Slaves[2], grp.name)

\* C24 witness: the bad channels have been read through the group and the
\* queries completed in the order slaveB, slaveA, master.
C24_Witness ==
    /\ cg.op = "getattr"
    /\ cg.pc = "done"
    /\ grp.name = "badchn"
    /\ log = <<"slaveB", "slaveA", Master>>
    /\ grp.result = <<11, 12, 21, 22, 23, 31, 32>>

\* The channels the device of unit u delivers per frame, and the units
\* before u in the chain.
Channels(u) == sum(SubSeq(ModChannels, 1, unit[u].dev.conf["nmodules"]))
Before(u) ==
    {Mythens[j] : j \in 1..((CHOOSE k \in 1..Len(Mythens) : Mythens[k] = u) - 1)}

\* The channels of the frame that make the slice of unit u.
Slice(u) ==
    {k \in 1..cg.frame_channels :
       /\ cg.connections[u].offset < k
       /\ k <= cg.connections[u].offset + cg.connections[u].num_channels}

RECURSIVE Total(_)
\* The channels of a set of units.
Total(us) ==
    IF us = {} THEN 0
    ELSE LET u == CHOOSE v \in us : TRUE IN Channels(u) + Total(us \ {u})

\* C25: in a chain readout the slice of every unit starts at the sum of the
\* channel counts of the units before it and has the unit's channel count
\* as length; the slices are pairwise disjoint and cover the frame; a
\* channel of the frame being assembled holds nothing yet or the value of
\* the same channel of the unit whose slice it is in, all of the slice once
\* the unit has been read; and a frame yielded is the raw frame of the
\* master followed by those of the slaves in chain order.
C25_Slices ==
    cg.op = "ireadout" =>
      /\ cg.frame_channels = Total(Units)
      /\ \A u \in Units :
            /\ cg.connections[u].offset = Total(Before(u))
            /\ cg.connections[u].num_channels = Channels(u)
            /\ Cardinality(Slice(u)) = Channels(u)
            /\ \A v \in Units \ {u} : Slice(u) \cap Slice(v) = {}
      /\ UNION {Slice(u) : u \in Units} = 1..cg.frame_channels
      /\ \A k \in 1..Len(cr.frame) : \A u \in Units :
            k \in Slice(u) =>
              /\ cr.frame[k] \in
                    {Garbage, [unit |-> u, frame |-> cr.frame[k].frame,
                               channel |-> k - Total(Before(u))]}
              /\ u \in cg.filled => cr.frame[k].unit = u
      /\ \A i \in 1..Len(cr.frames) :
            cr.frames[i] = RawFrame(Master, i - 1, Channels(Master))
                             \o RawFrame(Slaves[1], i - 1, Channels(Slaves[1]))
                             \o RawFrame(Slaves[2], i - 1, Channels(Slaves[2]))

\* C25 witness: the second frame of seven channels has been yielded:
\* channels 1-2 are the master's, 3-5 slaveA's and 6-7 slaveB's.
C25_Witness ==
    /\ cg.op = "ireadout"
    /\ Len(cr.frames) = 2
    /\ Len(cr.frames[2]) = 7
    /\ cr.frames[2][3] = [unit |-> "slaveA", frame |-> 1, channel |-> 1]
    /\ cr.frames[2][6] = [unit |-> "slaveB", frame |-> 1, channel |-> 1]
    /\ cg.connections["slaveB"].offset = 5

\* C26: once a group call is past its fan-out, the failure of a work item
\* of the fan-out has been raised to the caller.
C26_FailureRaised ==
    (/\ cg.pc \notin {"submit", "wait"}
     /\ \E k \in 1..Len(futs) : futs[k].st = "err") => cg.pc = "raised"

\* C5: in the chain readout every unit's connection is read at most once
\* per frame; a frame is yielded only with the slice of every unit filled,
\* by exactly one read of each unit; the frames are yielded in the order
\* 0, 1, ..., at most n of them; and no unit is read for the next frame
\* before the current one was yielded, in whatever order the units' data
\* arrives.
C5_FrameAssembly ==
    /\ Len(cr.out) <= cg.n
    /\ \A k \in 1..Len(cr.out) : cr.out[k] = k - 1 /\ cr.slices[k] = Units
    /\ \A u \in Units :
          /\ cr.reads[u] >= Len(cr.out)
          /\ cr.reads[u] <= Len(cr.out) + 1
          /\ (u \in cg.filled => cr.reads[u] = Len(cr.out) + 1)
          /\ (cg.pc \in {"select", "read"} /\ u \notin cg.filled =>
                cr.reads[u] = Len(cr.out))
          /\ (cg.pc \in {"frame", "done"} /\ cg.op = "ireadout" =>
                cr.reads[u] = Len(cr.out))
    /\ (cg.pc \in {"select", "read"} => cg.conns = Units \ cg.filled)
    /\ (cg.pc = "done" /\ cg.op = "ireadout" => Len(cr.out) = cg.n)

\* C5 witness: in the second frame the slice of the last unit of the chain
\* has been filled while those of the units before it are still missing.
C5_Witness ==
    /\ cg.op = "ireadout"
    /\ Len(cr.out) = 1
    /\ cg.filled = {"slaveB"}
    /\ cg.pc = "select"

\* C6: when the master's start is called, the start of every slave has been
\* called and has returned.
C6_MasterLast ==
    (\E k \in 1..Len(log) : log[k] = Master) =>
      /\ log[Len(log)] = Master
      /\ \A j \in 1..Len(Slaves) :
            \E k \in 1..Len(futs) :
              futs[k].unit = Slaves[j] /\ futs[k].fn = "start" /\ futs[k].st = "ok"

\* C6 witness: the master has been started after both slaves.
C6_Witness ==
    /\ cg.op = "start"
    /\ cg.pc = "done"
    /\ Len(log) = 3
    /\ log[3] = Master

\* C7: the start calls reach the units in the order slaveB, slaveA, master.
C7_ReverseOrder ==
    \A k \in 1..Len(log) : log[k] = (reversed(Slaves) \o <<Master>>)[k]

----------------------------------------------------------------------------
\* Properties of the simulator's command handler.

\* C31: every status query, also one made before any start command, is
\* answered with a status word whose bit 0 (running) is set iff an
\* acquisition was started and its engine has not terminated, and whose
\* bit 16 (FIFO empty) is set iff no entry is queued for readout.
C31_StatusWord ==
    [][StatusQuery =>
         /\ reply'.code = "data"
         /\ reply'.status.running = 1 <=> acq.pc \notin {"none", "dead"}
         /\ reply'.status.readout = 1 <=> acq.buffer = <<>>]_vars

\* C38: a readout request completes once the acquisition it reads from has
\* terminated: the handler never waits for an entry of the queue of an
\* acquisition whose engine is dead, since nothing will be put there.
C38_ReadoutCompletes ==
    ~(/\ rd.pc = "serving"
      /\ rd.left > 0
      /\ acq.pc = "dead"
      /\ acq.buffer = <<>>)

\* C39: the output signal is high only while the engine is exposing, and
\* once the engine has terminated, finished or aborted, the output signal is
\* low and the exposing flag of the acquisition is false.
C39_SignalLowAtRest ==
    /\ sig = 1 => acq.pc \notin {"none", "dead"} /\ acq.exposing
    /\ acq.pc = "dead" => sig = 0 /\ ~acq.exposing

----------------------------------------------------------------------------
\* Properties of reset().

\* C34: the timeout reset() gives its command is strictly longer than the
\* time the device takes to reset, for every module count, so that a reset
\* whose exchange meets no fault never ends with a timeout.
C34_ResetInTime ==
    /\ \A n \in 1..MaxModules : reset_timeout(n) > reset_duration(n)
    /\ call.op = "reset" /\ call.name = "none" => call.exc = "none"

----------------------------------------------------------------------------
\* Properties of the cached settings.

\* The settings whose last written value the device model caches.
CachedSettings == {"frames", "triggermode", "continuoustrigger", "gatemode"}

\* C40: a cached setting changes only in a call that did not raise, and
\* then to the value the device accepted: the write of that setting, after
\* which the device holds the value, or a reset, which puts frames back to 1.
C40_CacheFollowsDevice ==
    [][\A n \in CachedSettings :
         /\ my.klass # "none"
         /\ my'.klass # "none"
         /\ my'.cache[cached(n)] # my.cache[cached(n)]
         => /\ call'.exc = "none"
            /\ \/ /\ call'.op = "set"
                  /\ call'.name = n
                  /\ my'.cache[cached(n)] = call'.value
                  /\ my'.dev.conf[keyword(n)] = int(call'.value)
               \/ /\ call'.op = "reset"
                  /\ n = "frames"
                  /\ my'.cache[cached(n)] = "1"]_vars

----------------------------------------------------------------------------
\* More properties of the Connection wrapper.

\* C35: no call reads a reply byte that answers a request which timed out
\* earlier on the same Connection: the socket is discarded at the timeout.
C35_NoLateReply ==
    [][\A t \in Threads :
         th'[t].offset > th[t].offset
         => \A i \in 1..(th'[t].offset - th[t].offset) : wire[i] # Late]_vars

\* C33: a wrapped operation that ends in a transport error (a timeout, an
\* I/O error, a failed connect, or the stream closed by the peer before
\* read_exactly_into had its bytes) leaves the Connection without socket.
C33_ErrorDisconnects ==
    \A t \in Threads :
       /\ th[t].pc = "ret"
       /\ th[t].res \in {"timeout", "oserror", "connecterror", "commerror",
                         "closed"}
       => socket = "None"

----------------------------------------------------------------------------
\* More properties of the simulator's command handler.

\* C32: every message handled raises commandid by exactly 1, and
\* commandsetid by exactly 1 iff the command is not a get query; hence
\* commandid is the number of messages handled and commandsetid <= commandid.
C32_Counters ==
    /\ [][ids'.handled # ids.handled
          => /\ ids'.commandid = ids.commandid + 1
             /\ ids'.commandsetid =
                  ids.commandsetid + (IF ids'.last = "get" THEN 0 ELSE 1)]_vars
    /\ [](ids.commandid = ids.handled /\ ids.commandsetid <= ids.commandid)

\* The engines that are alive: the one of acq_task and the replaced ones.
Running ==
    (IF acq.pc \in {"none", "dead"} THEN 0 ELSE 1)
      + Cardinality({k \in 1..Len(orphans) : orphans[k].pc # "dead"})

\* C37: at most one acquisition engine is running at any time; a start
\* command received while an acquisition is running does not leave the
\* earlier engine running.
C37_OneEngine == Running <= 1

====
